---- MODULE Spec2Model ----
(***************************************************************************)
(* Model of the violation tracker's cache / enrichment / change-detection  *)
(* engine (src/vorea_violations/app.py).                                   *)
(*                                                                         *)
(* Python strings are TLA+ strings (Len, \o and SubSeq work on them in     *)
(* TLC).  An upstream record is a function from field names to strings; a  *)
(* field the record lacks is outside its DOMAIN.  Records come from        *)
(* resp.json(), so json.loads(json.dumps(r)) returns r itself: the store   *)
(* holds the parsed value of data_json.                                    *)
(***************************************************************************)
EXTENDS Integers, Sequences, FiniteSets, TLC

VARIABLES
    backend,              \* "sqlite" or "pg": which branch of get_db() is taken
    now,                  \* UTC clock, in minutes
    session,              \* browser session -> Flask session contents
    violation_cache,      \* <<domain, source>> -> row of table violation_cache
    violation_snapshots,  \* <<source, day, domain>> -> row of violation_snapshots
    violation_changes,    \* rows of table violation_changes, in insertion order
    op,                   \* the last operation performed and its inputs
    upstream,             \* dataset -> answer, for the upstream calls it made
    resp,                 \* zero or one JSON body: the response it returned
    refreshes,            \* number of live refreshes performed so far
    call,                 \* last call of a pure function: arguments and result
    app_settings,         \* <<key, domain>> -> value: table app_settings
    email_config,         \* zero or one row: table email_config (id = 1)
    inflight,             \* request or job in progress -> its position and locals
    sched,                \* the APScheduler job 'cache_refresh' of this process
    projects,             \* table projects: last id issued, id -> row
    project_bins,         \* <<project_id, bin>> -> row of table project_bins
    tco_items             \* table tco_items: last id issued, id -> row

vars == <<backend, now, session, violation_cache, violation_snapshots,
          violation_changes, op, upstream, resp, refreshes, call, app_settings,
          email_config, inflight, sched, projects, project_bins, tco_items>>

\* The registry tables
registry == <<projects, project_bins, tco_items>>

\* The scheduler state at import, on a serverless deployment or not
Scheduler(vercel) == [vercel |-> vercel, running |-> 0, ticks |-> 0, skipped |-> 0]

\* A table with an AUTOINCREMENT / SERIAL id: the last id issued and the rows
EmptyTable == [seq |-> 0, rows |-> << >>]

\* Nothing in progress, empty registry
InitIdle ==
    /\ inflight = << >>
    /\ sched = Scheduler(FALSE)
    /\ projects = EmptyTable
    /\ project_bins = << >>
    /\ tco_items = EmptyTable

-----------------------------------------------------------------------------
(* Static configuration *)

DatasetKeys ==
    << "DOB ECB Violations",
       "OATH Hearings (DOT / All Agencies)",
       "DOT Street Construction Permits" >>

DATASETS ==
    [ k \in {DatasetKeys[i] : i \in 1..Len(DatasetKeys)} |->
        CASE k = "DOB ECB Violations" ->
               [ id |-> "6bgk-3dad",
                 search_field |-> "respondent_name",
                 search_value |-> "VOREA",
                 address_fields |-> <<"respondent_house_number", "respondent_street">>,
                 borough_field |-> "boro",
                 status_field |-> "ecb_violation_status",
                 date_field |-> "issue_date",
                 id_field |-> "ecb_violation_number" ]
          [] k = "OATH Hearings (DOT / All Agencies)" ->
               [ id |-> "jz4z-kudi",
                 search_field |-> "respondent_last_name",
                 search_value |-> "VOREA",
                 address_fields |-> <<"violation_location_house",
                                      "violation_location_street_name">>,
                 borough_field |-> "violation_location_borough",
                 status_field |-> "hearing_status",
                 date_field |-> "violation_date",
                 id_field |-> "ticket_number" ]
          [] OTHER ->
               [ id |-> "tqtj-sjs8",
                 search_field |-> "permitteename",
                 search_value |-> "VOREA",
                 address_fields |-> <<"permithousenumber", "onstreetname">>,
                 borough_field |-> "boroughname",
                 status_field |-> "permitstatusshortdesc",
                 date_field |-> "issuedworkstartdate",
                 id_field |-> "permitnumber" ] ]

Datasets == DOMAIN DATASETS

_TRACKED_FIELDS ==
    [ k \in Datasets |->
        CASE k = "DOB ECB Violations" ->
               <<"ecb_violation_status", "penality_imposed", "certificate_status">>
          [] k = "OATH Hearings (DOT / All Agencies)" ->
               <<"hearing_status", "hearing_date", "civil_penalty_must_pay_amount">>
          [] OTHER ->
               <<"permitstatusshortdesc", "expirationdate">> ]

BORO_NAMES ==
    ("1" :> "Manhattan") @@ ("2" :> "Bronx") @@ ("3" :> "Brooklyn") @@
    ("4" :> "Queens") @@ ("5" :> "Staten Island") @@
    ("MANHATTAN" :> "Manhattan") @@ ("BRONX" :> "Bronx") @@
    ("BROOKLYN" :> "Brooklyn") @@ ("QUEENS" :> "Queens") @@
    ("STATEN ISLAND" :> "Staten Island")

resolved_kw ==
    << "RESOLVED", "CLOSED", "DISMISSED", "SATISFIED", "PAID IN FULL",
       "COMPLIED", "RESCINDED", "DELETED", "EXPIRE", "NOT GUILTY",
       "IN COMPLIANCE", "PENALTY PAID" >>

open_kw ==
    << "OPEN", "ACTIVE", "PENDING", "OUTSTANDING", "ISSUED", "NEW ISSUANCE",
       "UNRESOLVED", "V-DOB VIOLATION - ACTIVE", "DEFAULT", "GUILTY",
       "SCHEDULED", "IN VIOLATION", "UNPAID", "AMOUNT DUE",
       "CERTIFICATE REJECTED" >>

-----------------------------------------------------------------------------
(* Python built-ins used by the code *)

\* dict.get(f, default)
Get(rec, f, default) == IF f \in DOMAIN rec THEN rec[f] ELSE default

\* rec[f] = v
Put(rec, f, v) == (f :> v) @@ rec

Range(seq) == {seq[i] : i \in 1..Len(seq)}

\* The element of a one-element set: {F(x) : x \in {e}} names the value of e
\* as x, as a local variable does.
The(S) == CHOOSE x \in S : TRUE

\* kw in s
Contains(s, kw) ==
    \E i \in 1..(Len(s) - Len(kw) + 1) : SubSeq(s, i, i + Len(kw) - 1) = kw

UpperOf ==
    ("a" :> "A") @@ ("b" :> "B") @@ ("c" :> "C") @@ ("d" :> "D") @@
    ("e" :> "E") @@ ("f" :> "F") @@ ("g" :> "G") @@ ("h" :> "H") @@
    ("i" :> "I") @@ ("j" :> "J") @@ ("k" :> "K") @@ ("l" :> "L") @@
    ("m" :> "M") @@ ("n" :> "N") @@ ("o" :> "O") @@ ("p" :> "P") @@
    ("q" :> "Q") @@ ("r" :> "R") @@ ("s" :> "S") @@ ("t" :> "T") @@
    ("u" :> "U") @@ ("v" :> "V") @@ ("w" :> "W") @@ ("x" :> "X") @@
    ("y" :> "Y") @@ ("z" :> "Z")

RECURSIVE Upper(_)
\* str.upper()
Upper(s) ==
    IF Len(s) = 0 THEN ""
    ELSE LET c == SubSeq(s, 1, 1)
         IN  (IF c \in DOMAIN UpperOf THEN UpperOf[c] ELSE c)
               \o Upper(SubSeq(s, 2, Len(s)))

RECURSIVE LStrip(_, _)
LStrip(s, chars) ==
    IF Len(s) > 0 /\ SubSeq(s, 1, 1) \in chars
    THEN LStrip(SubSeq(s, 2, Len(s)), chars)
    ELSE s

RECURSIVE RStrip(_, _)
RStrip(s, chars) ==
    IF Len(s) > 0 /\ SubSeq(s, Len(s), Len(s)) \in chars
    THEN RStrip(SubSeq(s, 1, Len(s) - 1), chars)
    ELSE s

\* str.strip(chars); str.strip() is Strip(s, Whitespace)
Strip(s, chars) == RStrip(LStrip(s, chars), chars)

Whitespace == {" "}

RECURSIVE Join(_, _)
\* sep.join(parts)
Join(sep, parts) ==
    IF Len(parts) = 0 THEN ""
    ELSE IF Len(parts) = 1 THEN parts[1]
    ELSE parts[1] \o sep \o Join(sep, Tail(parts))

\* [p for p in parts if p]
NonEmpty(parts) == SelectSeq(parts, LAMBDA p : p # "")

\* s[:n]
Prefix(s, n) == SubSeq(s, 1, IF Len(s) < n THEN Len(s) ELSE n)

-----------------------------------------------------------------------------
(* Record Enricher *)

DateLen == 10

RECURSIVE FirstMatch(_, _, _)
\* "for kw in kws: if kw in status_val: return ..." : TRUE iff the loop returns
FirstMatch(kws, i, status_val) ==
    IF i > Len(kws) THEN FALSE
    ELSE IF Contains(status_val, kws[i]) THEN TRUE
    ELSE FirstMatch(kws, i + 1, status_val)

classify_status_open_first(record, dataset_key) ==
    LET ds           == IF dataset_key \in DOMAIN DATASETS
                        THEN DATASETS[dataset_key] ELSE <<>>
        status_field == Get(ds, "status_field", "")
        status_val   == Upper(Get(record, status_field, ""))
    IN  IF FirstMatch(open_kw, 1, status_val) THEN "open"
        ELSE IF FirstMatch(resolved_kw, 1, status_val) THEN "resolved"
        ELSE "pending"

classify_status(record, dataset_key) ==
    LET ds           == IF dataset_key \in DOMAIN DATASETS
                        THEN DATASETS[dataset_key] ELSE <<>>
        status_field == Get(ds, "status_field", "")
        status_val   == Upper(Get(record, status_field, ""))
    IN  IF FirstMatch(resolved_kw, 1, status_val) THEN "resolved"
        ELSE IF FirstMatch(open_kw, 1, status_val) THEN "open"
        ELSE "pending"

RECURSIVE AddrParts(_, _, _)
\* [str(record.get(f, "")).strip() for f in address_fields]
AddrParts(record, fields, i) ==
    IF i > Len(fields) THEN << >>
    ELSE << Strip(Get(record, fields[i], ""), Whitespace) >>
           \o AddrParts(record, fields, i + 1)

compute_address(record, ds_config) ==
    LET fields     == ds_config.address_fields
        addr       == Join(" ", NonEmpty(AddrParts(record, fields, 1)))
        boro_raw   == Strip(Get(record, ds_config.borough_field, ""), Whitespace)
        boro_name  == Get(BORO_NAMES, boro_raw, boro_raw)
        addr2      == IF boro_name # "" /\ ~Contains(addr, boro_name)
                      THEN (IF addr # "" THEN addr \o ", " \o boro_name
                            ELSE boro_name)
                      ELSE addr
    IN  Strip(addr2, {",", " "})


\* The answer of the DOB Permit Issuance endpoint to one batched BIN query:
\* [up |-> FALSE] when the request fails, else its rows as a map
\* bin__ -> <<house_no, street_name, borough>>.
RemoteDown == [up |-> FALSE, rows |-> << >>]

bulk_fetch_building_addresses(bin_list, remote) ==
    LET unique_bins == {Strip(bin_list[i], Whitespace) : i \in 1..Len(bin_list)}
                          \ {""}
    IN  IF Len(bin_list) = 0 \/ unique_bins = {} \/ ~remote.up
        THEN << >>
        ELSE [b \in unique_bins \cap DOMAIN remote.rows |-> remote.rows[b]]

\* Body of the loop "for rec in records" of _enrich_records, with a slip:
\* the status field itself is overwritten by the computed class.
EnrichRecordNormalising(rec, key, bin_addr_map) ==
    LET ds_config == DATASETS[key]
        status    == classify_status(rec, key)
        r1 == Put(rec, "_status_class", status)
        r2 == Put(r1, "_id", Get(r1, ds_config.id_field, ""))
        r3 == Put(r2, "_date",
                  IF Get(r2, ds_config.date_field, "") # ""
                  THEN Prefix(Get(r2, ds_config.date_field, ""), DateLen)
                  ELSE "")
        r4 == Put(r3, "_status_val", Get(r3, ds_config.status_field, "N/A"))
        r5 == Put(Put(r4, "_source", key), ds_config.status_field, status)
    IN  Put(r5, "_address", compute_address(r5, ds_config))

\* Body of the loop "for rec in records" of _enrich_records
EnrichRecord(rec, key, bin_addr_map) ==
    LET ds_config == DATASETS[key]
        status    == classify_status(rec, key)
        r1 == Put(rec, "_status_class", status)
        r2 == Put(r1, "_id", Get(r1, ds_config.id_field, ""))
        r3 == Put(r2, "_date",
                  IF Get(r2, ds_config.date_field, "") # ""
                  THEN Prefix(Get(r2, ds_config.date_field, ""), DateLen)
                  ELSE "")
        r4 == Put(r3, "_status_val", Get(r3, ds_config.status_field, "N/A"))
        r5 == Put(r4, "_source", key)
        b  == Strip(Get(r5, "bin", ""), Whitespace)
    IN  IF key = "DOB ECB Violations" /\ DOMAIN bin_addr_map # {}
        THEN IF b # "" /\ b \in DOMAIN bin_addr_map
             THEN LET house     == bin_addr_map[b][1]
                      street    == bin_addr_map[b][2]
                      boro_code == bin_addr_map[b][3]
                      boro_name == Get(BORO_NAMES, boro_code,
                                       Get(BORO_NAMES, Get(r5, "boro", ""), ""))
                      parts     == NonEmpty(<<Strip(house \o " " \o street, Whitespace),
                                              boro_name>>)
                  IN  Put(r5, "_address", Join(", ", parts))
             ELSE Put(r5, "_address", compute_address(r5, ds_config))
        ELSE Put(r5, "_address", compute_address(r5, ds_config))

RECURSIVE EnrichFrom(_, _, _, _)
\* "for rec in records: ... enriched.append(rec)"
EnrichFrom(records, i, key, bin_addr_map) ==
    IF i > Len(records) THEN << >>
    ELSE << EnrichRecord(records[i], key, bin_addr_map) >>
           \o EnrichFrom(records, i + 1, key, bin_addr_map)

RECURSIVE BinList(_, _)
\* [r.get("bin", "") for r in records]
BinList(records, i) ==
    IF i > Len(records) THEN << >>
    ELSE << Get(records[i], "bin", "") >> \o BinList(records, i + 1)

_enrich_records(records, key, remote) ==
    LET bin_addr_map ==
            IF key = "DOB ECB Violations" /\ Len(records) > 0
            THEN bulk_fetch_building_addresses(BinList(records, 1), remote)
            ELSE << >>
    IN  EnrichFrom(records, 1, key, bin_addr_map)


-----------------------------------------------------------------------------
(* Snapshot & Change Detector *)

\* The positions of old_map / new_map: {r['_id']: r for r in records if r.get('_id')}.
\* A dict keeps a key at the position of its first insertion and the value of
\* its last one.
RECURSIVE MapKeys(_, _, _)
MapKeys(records, i, acc) ==
    IF i > Len(records) THEN acc
    ELSE LET rid == Get(records[i], "_id", "")
         IN  IF rid # "" /\ rid \notin Range(acc)
             THEN MapKeys(records, i + 1, Append(acc, rid))
             ELSE MapKeys(records, i + 1, acc)

MapValue(records, rid) ==
    LET last == CHOOSE i \in 1..Len(records) :
                    /\ Get(records[i], "_id", "") = rid
                    /\ \A j \in (i + 1)..Len(records) :
                           Get(records[j], "_id", "") # rid
    IN  records[last]

\* old_value / new_value of a 'new' row: the empty string
NoPayload == <<>>

\* ChangeRows with the payload of a field_changed row naming every tracked
\* field rather than the changed ones.
ChangeRowsAllTracked(domain, source, rid, old_records, new_records) ==
    LET tracked == _TRACKED_FIELDS[source]
        rec     == MapValue(new_records, rid)
        base    == [domain |-> domain, source |-> source, record_id |-> rid,
                    address |-> Get(rec, "_address", ""),
                    description |-> Get(rec, "_status_val", "")]
    IN  IF rid \notin Range(MapKeys(old_records, 1, <<>>))
        THEN << base @@ [change_type |-> "new",
                         old_value |-> NoPayload, new_value |-> NoPayload] >>
        ELSE LET old    == MapValue(old_records, rid)
                 old_sc == Get(old, "_status_class", "")
                 new_sc == Get(rec, "_status_class", "")
             IN  IF old_sc # new_sc
                 THEN << base @@
                         [change_type |-> IF new_sc = "resolved" THEN "resolved"
                                          ELSE "status_changed",
                          old_value |-> [status |-> old_sc],
                          new_value |-> [status |-> new_sc]] >>
                 ELSE IF \E f \in Range(tracked) : Get(old, f, "") # Get(rec, f, "")
                      THEN << base @@
                              [change_type |-> "field_changed",
                               old_value |-> [f \in Range(tracked) |-> Get(old, f, "")],
                               new_value |-> [f \in Range(tracked) |-> Get(rec, f, "")]] >>
                      ELSE << >>

\* ChangeRows with an id absent from old_map contributing no row.
ChangeRowsKnownOnly(domain, source, rid, old_records, new_records) ==
    LET tracked == _TRACKED_FIELDS[source]
        rec     == MapValue(new_records, rid)
        base    == [domain |-> domain, source |-> source, record_id |-> rid,
                    address |-> Get(rec, "_address", ""),
                    description |-> Get(rec, "_status_val", "")]
    IN  IF rid \notin Range(MapKeys(old_records, 1, <<>>))
        THEN << >>
        ELSE LET old    == MapValue(old_records, rid)
                 old_sc == Get(old, "_status_class", "")
                 new_sc == Get(rec, "_status_class", "")
             IN  IF old_sc # new_sc
                 THEN << base @@
                         [change_type |-> IF new_sc = "resolved" THEN "resolved"
                                          ELSE "status_changed",
                          old_value |-> [status |-> old_sc],
                          new_value |-> [status |-> new_sc]] >>
                 ELSE LET changed == {f \in Range(tracked) :
                                         Get(old, f, "") # Get(rec, f, "")}
                      IN  IF changed # {}
                          THEN << base @@
                                  [change_type |-> "field_changed",
                                   old_value |-> [f \in changed |-> Get(old, f, "")],
                                   new_value |-> [f \in changed |-> Get(rec, f, "")]] >>
                          ELSE << >>

\* ChangeRows with the "if changed:" test left out: a field_changed row even
\* when no tracked field differs.
ChangeRowsUnconditional(domain, source, rid, old_records, new_records) ==
    LET tracked == _TRACKED_FIELDS[source]
        rec     == MapValue(new_records, rid)
        base    == [domain |-> domain, source |-> source, record_id |-> rid,
                    address |-> Get(rec, "_address", ""),
                    description |-> Get(rec, "_status_val", "")]
    IN  IF rid \notin Range(MapKeys(old_records, 1, <<>>))
        THEN << base @@ [change_type |-> "new",
                         old_value |-> NoPayload, new_value |-> NoPayload] >>
        ELSE LET old    == MapValue(old_records, rid)
                 old_sc == Get(old, "_status_class", "")
                 new_sc == Get(rec, "_status_class", "")
             IN  IF old_sc # new_sc
                 THEN << base @@
                         [change_type |-> IF new_sc = "resolved" THEN "resolved"
                                          ELSE "status_changed",
                          old_value |-> [status |-> old_sc],
                          new_value |-> [status |-> new_sc]] >>
                 ELSE LET changed == {f \in Range(tracked) :
                                         Get(old, f, "") # Get(rec, f, "")}
                      IN  << base @@
                              [change_type |-> "field_changed",
                               old_value |-> [f \in changed |-> Get(old, f, "")],
                               new_value |-> [f \in changed |-> Get(rec, f, "")]] >>

\* The rows one id of new_map contributes to "inserts" (none or one), with the
\* status comparison left out: every common id goes to the field comparison.
ChangeRowsFieldsOnly(domain, source, rid, old_records, new_records) ==
    LET tracked == _TRACKED_FIELDS[source]
        rec     == MapValue(new_records, rid)
        addr    == Get(rec, "_address", "")
        desc    == Get(rec, "_status_val", "")
        base    == [domain |-> domain, source |-> source, record_id |-> rid,
                    address |-> addr, description |-> desc]
    IN  IF rid \notin Range(MapKeys(old_records, 1, <<>>))
        THEN << base @@ [change_type |-> "new",
                         old_value |-> NoPayload, new_value |-> NoPayload] >>
        ELSE LET old     == MapValue(old_records, rid)
                 changed == {f \in Range(tracked) : Get(old, f, "") # Get(rec, f, "")}
             IN  IF changed # {}
                 THEN << base @@
                         [change_type |-> "field_changed",
                          old_value |-> [f \in changed |-> Get(old, f, "")],
                          new_value |-> [f \in changed |-> Get(rec, f, "")]] >>
                 ELSE << >>

\* The rows one id of new_map contributes to "inserts" (none or one)
ChangeRows(domain, source, rid, old_records, new_records) ==
    LET tracked == _TRACKED_FIELDS[source]
        rec     == MapValue(new_records, rid)
        addr    == Get(rec, "_address", "")
        desc    == Get(rec, "_status_val", "")
        base    == [domain |-> domain, source |-> source, record_id |-> rid,
                    address |-> addr, description |-> desc]
    IN  IF rid \notin Range(MapKeys(old_records, 1, <<>>))
        THEN << base @@ [change_type |-> "new",
                         old_value |-> NoPayload, new_value |-> NoPayload] >>
        ELSE LET old    == MapValue(old_records, rid)
                 old_sc == Get(old, "_status_class", "")
                 new_sc == Get(rec, "_status_class", "")
             IN  IF old_sc # new_sc
                 THEN << base @@
                         [change_type |-> IF new_sc = "resolved" THEN "resolved"
                                          ELSE "status_changed",
                          old_value |-> [status |-> old_sc],
                          new_value |-> [status |-> new_sc]] >>
                 ELSE LET changed == {f \in Range(tracked) :
                                         Get(old, f, "") # Get(rec, f, "")}
                      IN  IF changed # {}
                          THEN << base @@
                                  [change_type |-> "field_changed",
                                   old_value |-> [f \in changed |-> Get(old, f, "")],
                                   new_value |-> [f \in changed |-> Get(rec, f, "")]] >>
                          ELSE << >>

RECURSIVE Inserts(_, _, _, _, _, _)
\* "for rid, rec in new_map.items()": the list "inserts"
Inserts(domain, source, keys, i, old_records, new_records) ==
    IF i > Len(keys) THEN << >>
    ELSE ChangeRows(domain, source, keys[i], old_records, new_records)
           \o Inserts(domain, source, keys, i + 1, old_records, new_records)

\* _detect_and_save_changes without the early return on an empty baseline
DetectWithoutBaselineCheck(domain, source, old_records, new_records) ==
    Inserts(domain, source, MapKeys(new_records, 1, <<>>), 1,
            old_records, new_records)

\* _detect_and_save_changes: the rows it inserts into violation_changes
_detect_and_save_changes(domain, source, old_records, new_records) ==
    IF Len(old_records) = 0 THEN << >>
    ELSE Inserts(domain, source, MapKeys(new_records, 1, <<>>), 1,
                 old_records, new_records)


-----------------------------------------------------------------------------
(* Upstream Data Client *)

\* What requests.get(...) / resp.json() produce for one dataset query:
\*   [kind |-> "array", data |-> <<records>>]   a JSON array of records
\*   [kind |-> "error_dict", message]           a JSON object with an "error"
\*                                              key; message is str(data)
\*   [kind |-> "request_exception", message]    RequestException (transport,
\*                                              timeout, HTTP error status);
\*                                              message is str(e)

\* fetch_violations without the try/except: the exception reaches the caller
fetch_violations_unguarded(dataset_key, search_term, answer) ==
    IF answer.kind = "array"
    THEN [success |-> TRUE, data |-> answer.data, count |-> Len(answer.data),
          source |-> dataset_key]
    ELSE IF answer.kind = "error_dict"
    THEN [success |-> FALSE, error |-> answer.message, data |-> << >>,
          count |-> 0, source |-> dataset_key]
    ELSE [raised |-> answer.message]

fetch_violations(dataset_key, search_term, answer) ==
    IF answer.kind = "array"
    THEN [success |-> TRUE, data |-> answer.data, count |-> Len(answer.data),
          source |-> dataset_key]
    ELSE [success |-> FALSE, error |-> answer.message, data |-> << >>,
          count |-> 0, source |-> dataset_key]

-----------------------------------------------------------------------------
(* The store *)

MinutesPerDay == 1440

\* datetime.utcnow().strftime('%Y-%m-%d'): the UTC calendar day of the clock
Today == now \div MinutesPerDay

\* Rows seeded into company_domains by init_db: domain -> row
company_domains ==
    ("domaincos.com" :> [company_name |-> "VOREA", search_term |-> "VOREA"]) @@
    ("vorea.com" :> [company_name |-> "VOREA", search_term |-> "VOREA"]) @@
    ("schimenti.com" :> [company_name |-> "Schimenti", search_term |-> "Schimenti"])

\* A TIMESTAMP column as the driver hands it to Python: sqlite3 (no
\* detect_types) returns the stored text, psycopg2 a datetime object.
DriverTimestamp(t) ==
    IF backend = "pg" THEN [datetime |-> t] ELSE [text |-> t]

InvalidAge == 9999

\* str.replace('Z', '') followed by fromisoformat on text; on a datetime
\* object .replace('Z', '') raises TypeError, which the except clause turns
\* into 9999.
_cache_age_minutes(fetched_at_str) ==
    IF "text" \in DOMAIN fetched_at_str
    THEN now - fetched_at_str.text
    ELSE InvalidAge

\* An upsert that appends the fetched array to the one already cached
UpsertCacheAppending(cache, key, domain, enriched, search) ==
    Put(cache, <<domain, key>>,
        [data_json |-> (IF <<domain, key>> \in DOMAIN cache
                        THEN cache[<<domain, key>>].data_json ELSE << >>)
                       \o enriched,
         fetched_at |-> now, search_term |-> search])

RECURSIVE NotRefetched(_, _, _)
\* The records of old whose id is not among those of enriched
NotRefetched(old, i, enriched) ==
    IF i > Len(old) THEN << >>
    ELSE (IF \E j \in 1..Len(enriched) :
                Get(enriched[j], "_id", "") = Get(old[i], "_id", "")
          THEN << >> ELSE << old[i] >>)
         \o NotRefetched(old, i + 1, enriched)

\* An upsert that keeps the cached records that were not fetched again
UpsertCacheMerging(cache, key, domain, enriched, search) ==
    Put(cache, <<domain, key>>,
        [data_json |-> enriched \o
                       NotRefetched(IF <<domain, key>> \in DOMAIN cache
                                    THEN cache[<<domain, key>>].data_json
                                    ELSE << >>, 1, enriched),
         fetched_at |-> now, search_term |-> search])

\* INSERT OR REPLACE INTO violation_cache
UpsertCache(cache, key, domain, enriched, search) ==
    Put(cache, <<domain, key>>,
        [data_json |-> enriched, fetched_at |-> now, search_term |-> search])

\* INSERT OR IGNORE in place of the upsert: the first snapshot of a day stays
UpsertSnapshotKeepingFirst(snaps, key, domain, today, enriched, search) ==
    LET pk == <<key, today, domain>>
    IN  IF pk \in DOMAIN snaps THEN snaps
        ELSE Put(snaps, pk,
                 [data_json |-> enriched, record_count |-> Len(enriched),
                  fetched_at |-> now, search_term |-> search])

\* INSERT OR REPLACE INTO violation_snapshots: SQLite replaces the row; on
\* Postgres _PG_UPSERT updates data_json, record_count and fetched_at only.
UpsertSnapshot(snaps, key, domain, today, enriched, search) ==
    LET pk == <<key, today, domain>>
    IN  Put(snaps, pk,
            [data_json |-> enriched, record_count |-> Len(enriched),
             fetched_at |-> now,
             search_term |-> IF backend = "pg" /\ pk \in DOMAIN snaps
                             THEN snaps[pk].search_term ELSE search])

\* INSERT INTO violation_changes, one row per element of "inserts"
RECURSIVE Stamped(_, _)
Stamped(rows, i) ==
    IF i > Len(rows) THEN << >>
    ELSE << rows[i] @@ [detected_at |-> now] >> \o Stamped(rows, i + 1)

InsertChanges(changes, rows) == changes \o Stamped(rows, 1)

\* The successful branch of one iteration of _refresh_domain: change
\* detection, then the snapshot and cache writes.
SaveRefreshed(store, key, domain, search, today, old_enriched, enriched) ==
    [cache   |-> UpsertCache(store.cache, key, domain, enriched, search),
     snaps   |-> UpsertSnapshot(store.snaps, key, domain, today, enriched, search),
     changes |-> InsertChanges(store.changes,
                     _detect_and_save_changes(domain, key, old_enriched, enriched))]

\* One iteration of _refresh_domain in which a failed fetch is saved as an
\* empty array
RefreshKeyClearing(store, key, domain, search, today, env) ==
    LET old_enriched == IF <<domain, key>> \in DOMAIN store.cache
                        THEN store.cache[<<domain, key>>].data_json
                        ELSE << >>
        result       == fetch_violations(key, search, env.answers[key])
    IN  The({ SaveRefreshed(store, key, domain, search, today,
                            old_enriched, enriched) :
                enriched \in {_enrich_records(result.data, key, env.remote)} })

\* One iteration of _refresh_domain in which a failed fetch re-stamps the
\* entry already cached
RefreshKeyTouching(store, key, domain, search, today, env) ==
    LET old_enriched == IF <<domain, key>> \in DOMAIN store.cache
                        THEN store.cache[<<domain, key>>].data_json
                        ELSE << >>
        result       == fetch_violations(key, search, env.answers[key])
    IN  IF result.success
        THEN The({ SaveRefreshed(store, key, domain, search, today,
                                 old_enriched, enriched) :
                     enriched \in {_enrich_records(result.data, key, env.remote)} })
        ELSE IF <<domain, key>> \in DOMAIN store.cache
        THEN [store EXCEPT !.cache[<<domain, key>>].fetched_at = now]
        ELSE store

\* One iteration of "for key in DATASETS" in _refresh_domain.
\* store is [cache, snaps, changes]; env gives the upstream answers.
RefreshKey(store, key, domain, search, today, env) ==
    LET old_enriched == IF <<domain, key>> \in DOMAIN store.cache
                        THEN store.cache[<<domain, key>>].data_json
                        ELSE << >>
        result       == fetch_violations(key, search, env.answers[key])
    IN  IF result.success
        THEN The({ SaveRefreshed(store, key, domain, search, today,
                                 old_enriched, enriched) :
                     enriched \in {_enrich_records(result.data, key, env.remote)} })
        ELSE store

RECURSIVE RefreshFromStopping(_, _, _, _, _, _)
\* The loop of _refresh_domain leaving at the first failed fetch
RefreshFromStopping(store, i, domain, search, today, env) ==
    IF i > Len(DatasetKeys) THEN store
    ELSE IF env.answers[DatasetKeys[i]].kind # "array" THEN store
    ELSE The({ RefreshFromStopping(next, i + 1, domain, search, today, env) :
                 next \in {RefreshKey(store, DatasetKeys[i], domain, search,
                                      today, env)} })

RECURSIVE RefreshFrom(_, _, _, _, _, _)
RefreshFrom(store, i, domain, search, today, env) ==
    IF i > Len(DatasetKeys) THEN store
    ELSE The({ RefreshFrom(next, i + 1, domain, search, today, env) :
                 next \in {RefreshKey(store, DatasetKeys[i], domain, search,
                                      today, env)} })

_refresh_domain(store, domain, search, today, env) ==
    RefreshFrom(store, 1, domain, search, today, env)


-----------------------------------------------------------------------------
(* Cache Freshness Gate: /api/all *)

MaxRefreshes == 2

StaleAfter == 1440

\* SELECT ... FROM violation_cache WHERE domain=?  (rows listed in DATASETS order)
RECURSIVE RowsFrom(_, _, _)
RowsFrom(cache, domain, i) ==
    IF i > Len(DatasetKeys) THEN << >>
    ELSE LET pk == <<domain, DatasetKeys[i]>>
         IN  (IF pk \in DOMAIN cache
              THEN << [source      |-> DatasetKeys[i],
                       data_json   |-> cache[pk].data_json,
                       fetched_at  |-> DriverTimestamp(cache[pk].fetched_at),
                       search_term |-> cache[pk].search_term] >>
              ELSE << >>)
               \o RowsFrom(cache, domain, i + 1)

CacheRows(cache, domain) == RowsFrom(cache, domain, 1)

SetMax(S, default) == IF S = {} THEN default ELSE CHOOSE x \in S : \A y \in S : y <= x
SetMin(S) == CHOOSE x \in S : \A y \in S : x <= y

RECURSIVE Tally(_, _, _)
\* "for rec in enriched": counts[s] = counts.get(s, 0) + 1
Tally(enriched, i, counts) ==
    IF i > Len(enriched) THEN counts
    ELSE LET s == Get(enriched[i], "_status_class", "pending")
         IN  Tally(enriched, i + 1, Put(counts, s, Get(counts, s, 0) + 1))

ZeroCounts == ("open" :> 0) @@ ("resolved" :> 0) @@ ("pending" :> 0)

RECURSIVE AggregateTotalAssigned(_, _, _)
\* The aggregation loop with summary["total"] assigned rather than incremented
AggregateTotalAssigned(rows, i, acc) ==
    IF i > Len(rows) THEN acc
    ELSE LET key           == rows[i].source
             enriched      == rows[i].data_json
             source_counts == Tally(enriched, 1, ZeroCounts)
             summary1      == Tally(enriched, 1, acc.summary)
             summary2      == Put(summary1, "total", Len(enriched))
         IN  The({ AggregateTotalAssigned(rows, i + 1, next) :
                     next \in {[results   |-> Put(acc.results, key, enriched),
                                summary   |-> summary2,
                                by_source |-> Put(acc.by_source, key,
                                                  Put(source_counts, "count",
                                                      Len(enriched)))]} })

RECURSIVE Aggregate(_, _, _)
\* The loop over the cache rows that fills all_results and summary.
\* acc is [results, summary, by_source]; summary holds total/open/resolved/pending.
Aggregate(rows, i, acc) ==
    IF i > Len(rows) THEN acc
    ELSE LET key           == rows[i].source
             enriched      == rows[i].data_json
             source_counts == Tally(enriched, 1, ZeroCounts)
             summary1      == Tally(enriched, 1, acc.summary)
             summary2      == Put(summary1, "total", summary1["total"] + Len(enriched))
         IN  The({ Aggregate(rows, i + 1, next) :
                     next \in {[results   |-> Put(acc.results, key, enriched),
                                summary   |-> summary2,
                                by_source |-> Put(acc.by_source, key,
                                                  Put(source_counts, "count",
                                                      Len(enriched)))]} })

EmptyAggregate ==
    [results |-> << >>, summary |-> ZeroCounts @@ ("total" :> 0), by_source |-> << >>]

\* The freshness decision of get_all_violations
UseCache(cache_rows, force_refresh) ==
    LET cache_map  == {cache_rows[i].source : i \in 1..Len(cache_rows)}
        all_cached == Cardinality(cache_map) = Len(DatasetKeys)
        oldest_age == SetMax({_cache_age_minutes(cache_rows[i].fetched_at) :
                                 i \in 1..Len(cache_rows)}, InvalidAge)
    IN  ~force_refresh /\ all_cached /\ oldest_age <= StaleAfter

LoggedOut == << >>

\* get_all_violations for the session s, query parameter refresh = force_refresh;
\* env holds what the upstream endpoints answer if they are called.
get_all_violations(s, force_refresh, env) ==
    /\ session[s] # LoggedOut
    /\ LET domain     == session[s].domain
           search     == session[s].search_term
           cache_rows == CacheRows(violation_cache, domain)
       IN  IF UseCache(cache_rows, force_refresh)
           THEN LET agg == Aggregate(cache_rows, 1, EmptyAggregate)
                IN  /\ resp' = << [results    |-> agg.results,
                                   summary    |-> agg.summary,
                                   by_source  |-> agg.by_source,
                                   from_cache |-> TRUE,
                                   cached_at  |-> {SetMin({violation_cache[<<domain, k>>].fetched_at :
                                                              k \in Datasets})}] >>
                    /\ upstream' = << >>
                    /\ UNCHANGED <<violation_cache, violation_snapshots,
                                   violation_changes, refreshes>>
           ELSE /\ refreshes < MaxRefreshes
                /\ \E store \in {_refresh_domain(
                                    [cache   |-> violation_cache,
                                     snaps   |-> violation_snapshots,
                                     changes |-> violation_changes],
                                    domain, search, Today, env)} :
                   \E agg \in {Aggregate(CacheRows(store.cache, domain), 1,
                                         EmptyAggregate)} :
                    /\ refreshes' = refreshes + 1
                    /\ violation_cache' = store.cache
                    /\ violation_snapshots' = store.snaps
                    /\ violation_changes' = store.changes
                    /\ upstream' = env.answers
                    /\ resp' = << [results    |-> agg.results,
                                   summary    |-> agg.summary,
                                   by_source  |-> agg.by_source,
                                   from_cache |-> FALSE,
                                   cached_at  |-> {}] >>
    /\ op' = [name |-> "get_all_violations", session |-> s, refresh |-> force_refresh]
    /\ UNCHANGED <<backend, inflight, sched, registry, now, session, call, app_settings, email_config>>


-----------------------------------------------------------------------------
(* Login and the clock *)

Sessions == {"s1", "s2"}

\* Registered users (rows of table users): session -> the domain of the
\* account that logs in through it
UserDomain ==
    ("s1" :> "domaincos.com") @@ ("s2" :> "schimenti.com") @@ ("s3" :> "acme.com")

\* POST /login with valid credentials
login(s) ==
    LET domain  == UserDomain[s]
        company == IF domain \in DOMAIN company_domains
                   THEN company_domains[domain]
                   ELSE [company_name |-> domain, search_term |-> domain]
    IN  /\ session' = [session EXCEPT ![s] =
                          [domain       |-> domain,
                           company_name |-> company.company_name,
                           search_term  |-> company.search_term]]
        /\ session'[s] # session[s]
        /\ op' = [name |-> "login", session |-> s]
        /\ upstream' = << >>
        /\ resp' = << >>
        /\ UNCHANGED <<backend, inflight, sched, registry, now, violation_cache, violation_snapshots,
                       violation_changes, refreshes, call, app_settings, email_config>>

MaxNow == 1441

TickSteps == {720, 721}

\* Time passes between two requests
Tick(d) ==
    /\ now + d <= MaxNow
    /\ now' = now + d
    /\ op' = [name |-> "tick"]
    /\ upstream' = << >>
    /\ resp' = << >>
    /\ UNCHANGED <<backend, inflight, sched, registry, session, violation_cache, violation_snapshots,
                   violation_changes, refreshes, call, app_settings, email_config>>

-----------------------------------------------------------------------------
(* Upstream data the model draws from *)

Ecb(num, status, penalty) ==
    [ecb_violation_number |-> num, ecb_violation_status |-> status,
     issue_date |-> "20240105", penality_imposed |-> penalty,
     bin |-> "2008251", boro |-> "2",
     respondent_house_number |-> "10", respondent_street |-> "MAIN ST"]

\* A row the upstream returns without its id column
EcbNoId ==
    [ecb_violation_status |-> "ACTIVE", issue_date |-> "20240301",
     penality_imposed |-> "75", boro |-> "BRONX"]

Oath(ticket, status, hearing, due) ==
    [ticket_number |-> ticket, hearing_status |-> status,
     violation_date |-> "2024-02-11T00:00:00.000", hearing_date |-> hearing,
     civil_penalty_must_pay_amount |-> due,
     violation_location_house |-> "291",
     violation_location_street_name |-> "LIVINGSTON ST",
     violation_location_borough |-> "BROOKLYN"]

Dot(permit, status, expires) ==
    [permitnumber |-> permit, permitstatusshortdesc |-> status,
     issuedworkstartdate |-> "2024-01-02T00:00:00.000", expirationdate |-> expires,
     onstreetname |-> "JEROME AVENUE", boroughname |-> "BRONX"]

EcbA == << Ecb("35001", "ACTIVE", "100"), Ecb("35002", "ACTIVE", "500") >>
EcbB == << Ecb("35001", "RESOLVED", "250"), Ecb("35003", "Active", "0"), EcbNoId >>
EcbC == << Ecb("35001", "HEARING", "100") >>

OathA == << Oath("T1", "SCHEDULED", "2024-03-01", "0"),
            Oath("T2", "DOCKETED", "2024-03-05", "300") >>
OathB == << Oath("T1", "DEFAULTED", "2024-04-01", "0"),
            Oath("T2", "DOCKETED", "2024-03-05", "300") >>

DotA == << Dot("P1", "ISSUED", "2024-06-30") >>
DotB == << Dot("P1", "EXPIRED", "2024-06-30") >>
DotC == << Dot("P1", "HOLD", "2024-06-30"), Dot("P2", "ISSUED", "2024-09-30") >>

Array(data) == [kind |-> "array", data |-> data]
Failed(kind) ==
    [kind |-> kind,
     message |-> IF kind = "error_dict"
                 THEN "{'error': True, 'message': 'Invalid SoQL query'}"
                 ELSE "HTTPSConnectionPool(host='data.cityofnewyork.us'): Max retries exceeded"]

\* The DOB Permit Issuance rows for the BINs above
RemoteUp == [up |-> TRUE, rows |-> ("2008251" :> <<"1940", "JEROME AVE", "BRONX">>)]

Answers(a, b, c) ==
    [k \in Datasets |->
        IF k = DatasetKeys[1] THEN a ELSE IF k = DatasetKeys[2] THEN b ELSE c]

Env(a, b, c, r) == [answers |-> Answers(a, b, c), remote |-> r]

\* Upstream behaviours for the change-detection runs.  Any of them can follow
\* any other, so each dataset sees every ordered pair of its arrays.
DetectEnvs ==
    { Env(Array(EcbA), Array(OathA), Array(DotA), RemoteUp),
      Env(Array(EcbB), Array(OathB), Array(DotB), RemoteUp),
      Env(Failed("request_exception"), Array(<< >>), Array(DotC), RemoteUp),
      Env(Array(EcbA), Failed("error_dict"), Array(DotB), RemoteDown),
      Env(Array(EcbB), Array(OathA), Array(DotC), RemoteDown),
      Env(Array(<< >>), Array(OathB), Array(DotA), RemoteUp) }

\* Upstream behaviours for the freshness-gate runs
GateEnvs ==
    { Env(Array(EcbA), Array(OathA), Array(DotA), RemoteUp),
      Env(Array(EcbB), Failed("error_dict"), Array(DotC), RemoteDown),
      Env(Failed("request_exception"), Array(OathA),
          Failed("request_exception"), RemoteUp) }

-----------------------------------------------------------------------------
(* Specifications *)

NoCall == [fn |-> "none"]

Init ==
    /\ backend \in {"sqlite", "pg"}
    /\ now = 0
    /\ session = [s \in Sessions |-> LoggedOut]
    /\ violation_cache = << >>
    /\ violation_snapshots = << >>
    /\ violation_changes = << >>
    /\ op = [name |-> "init_db"]
    /\ upstream = << >>
    /\ resp = << >>
    /\ refreshes = 0
    /\ call = NoCall
    /\ app_settings = << >>
    /\ email_config = << >>
    /\ InitIdle

Next ==
    \/ \E s \in Sessions : login(s)
    \/ \E d \in TickSteps : Tick(d)
    \/ \E s \in Sessions, force \in BOOLEAN, env \in GateEnvs :
          get_all_violations(s, force, env)

\* Requests, logins and the passing of time, in any order
Spec == Init /\ [][Next]_vars

NextDetect ==
    \/ login("s1")
    \/ \E force \in BOOLEAN, env \in DetectEnvs :
          get_all_violations("s1", force, env)

\* One tenant refreshing repeatedly against changing upstream data
SpecDetect == Init /\ [][NextDetect]_vars


-----------------------------------------------------------------------------
(* The enricher on its own: classify_status and _enrich_records applied to   *)
(* sample records                                                            *)

StatusSamples ==
    { "ACTIVE", "RESOLVE", "Resolved", "NOT GUILTY", "Guilty", "UNRESOLVED",
      "DOCKETED", "PAID IN FULL", "HEARING COMPLETED", "EXPIRED", "IN VIOLATION",
      "", "Certificate Rejected", "DEFAULTED", "NEW ISSUANCE", "penalty paid",
      "WRITTEN OFF" }

\* A record of the dataset whose status column holds st
Sample(key, st) ==
    Put(IF key = DatasetKeys[1] THEN Ecb("35001", "", "100")
        ELSE IF key = DatasetKeys[2] THEN Oath("T1", "", "2024-03-01", "0")
        ELSE Dot("P1", "", "2024-06-30"),
        DATASETS[key].status_field, st)

\* del rec[f]
Without(rec, f) == [x \in (DOMAIN rec) \ {f} |-> rec[x]]

\* The same record with other address columns
Readdressed(rec, key, house, street, boro) ==
    Put(Put(Put(rec, DATASETS[key].address_fields[1], house),
            DATASETS[key].address_fields[2], street),
        DATASETS[key].borough_field, boro)

SampleRecords(key) ==
    LET plain == {Sample(key, st) : st \in StatusSamples}
                    \cup {Without(Sample(key, "x"), DATASETS[key].status_field)}
    IN  plain
        \cup {Readdressed(r, key, " 12 ", "Bronx Park East", "2") : r \in plain}
        \cup {Without(Readdressed(r, key, "", "", " "), "bin") : r \in plain}

InitPure ==
    /\ backend = "sqlite"
    /\ now = 0
    /\ session = [s \in Sessions |-> LoggedOut]
    /\ violation_cache = << >>
    /\ violation_snapshots = << >>
    /\ violation_changes = << >>
    /\ op = [name |-> "init_db"]
    /\ upstream = << >>
    /\ resp = << >>
    /\ refreshes = 0
    /\ app_settings = << >>
    /\ email_config = << >>
    /\ InitIdle
    /\ \E key \in Datasets, remote \in {RemoteUp, RemoteDown} :
         \E rec \in SampleRecords(key) :
            call = [fn |-> "input", key |-> key, record |-> rec, remote |-> remote]

Others == <<backend, now, session, violation_cache, violation_snapshots,
            violation_changes, op, upstream, resp, refreshes,
            app_settings, email_config, inflight, sched, registry>>

CallClassify ==
    /\ call.fn = "input"
    /\ call' = [fn |-> "classify_status", key |-> call.key, record |-> call.record,
                out |-> classify_status(call.record, call.key)]
    /\ UNCHANGED Others

CallEnrich ==
    /\ call.fn = "input"
    /\ call' = [fn |-> "_enrich_records", key |-> call.key, remote |-> call.remote,
                record |-> call.record,
                out |-> _enrich_records(<< call.record >>, call.key, call.remote)]
    /\ UNCHANGED Others

\* _enrich_records applied to its own output
CallEnrichAgain ==
    /\ call.fn = "_enrich_records"
    /\ call' = [fn |-> "_enrich_records again", key |-> call.key,
                remote |-> call.remote, first |-> call.out,
                out |-> _enrich_records(call.out, call.key, call.remote)]
    /\ UNCHANGED Others

\* A RequestException of class exc raised by requests.get or raise_for_status
Raised(exc, message) ==
    [kind |-> "request_exception", exception |-> exc, message |-> message]

\* What the upstream may answer to one query of a dataset
FetchAnswers(key) ==
    { Array(<< >>), Array(<< Sample(key, "ACTIVE"), Sample(key, "CLOSED") >>),
      Failed("error_dict"),
      Raised("ConnectionError", "Failed to establish a new connection"),
      Raised("ReadTimeout", "Read timed out. (read timeout=30)"),
      Raised("HTTPError", "400 Client Error: Bad Request for url"),
      Raised("HTTPError", "503 Server Error: Service Unavailable for url") }

CallFetch ==
    /\ call.fn = "input"
    /\ \E answer \in FetchAnswers(call.key), search \in {"VOREA", "Schimenti"} :
          call' = [fn |-> "fetch_violations", key |-> call.key, answer |-> answer,
                   out |-> fetch_violations(call.key, search, answer)]
    /\ UNCHANGED Others

NextPure == CallClassify \/ CallEnrich \/ CallEnrichAgain \/ CallFetch

SpecPure == InitPure /\ [][NextPure]_vars

-----------------------------------------------------------------------------
(* Properties *)

HasAny(kws, status_val) == \E kw \in Range(kws) : Contains(Upper(status_val), kw)

\* C7: classify_status returns "resolved" if the upper-cased status value
\* contains any resolved keyword, else "open" if it contains any open keyword,
\* else "pending"; a value matching both lists (NOT GUILTY) is resolved.
C7_ClassifyPriority ==
    call.fn = "classify_status" =>
        LET status_val == Get(call.record, DATASETS[call.key].status_field, "")
        IN  /\ call.out = IF HasAny(resolved_kw, status_val) THEN "resolved"
                          ELSE IF HasAny(open_kw, status_val) THEN "open"
                          ELSE "pending"
            /\ (HasAny(resolved_kw, status_val) /\ HasAny(open_kw, status_val))
                  => call.out = "resolved"

C7_Witness ==
    /\ call.fn = "classify_status"
    /\ Get(call.record, DATASETS[call.key].status_field, "") = "NOT GUILTY"
    /\ call.out = "resolved"

DerivedFields == {"_status_class", "_id", "_date", "_status_val", "_address", "_source"}

\* C8: enriching the output of _enrich_records again, for the same dataset and
\* the same building-address lookup result, leaves every derived field of
\* every record unchanged.
C8_EnrichIdempotent ==
    call.fn = "_enrich_records again" =>
        /\ Len(call.out) = Len(call.first)
        /\ \A i \in 1..Len(call.out) :
              /\ DerivedFields \subseteq DOMAIN call.out[i]
              /\ \A f \in DerivedFields : call.out[i][f] = call.first[i][f]

C8_Witness ==
    /\ call.fn = "_enrich_records again"
    /\ call.key = "DOB ECB Violations"
    /\ call.remote.up
    /\ call.out[1]["_address"] = "1940 JEROME AVE, Bronx"
    /\ call.out[1]["_status_class"] = "resolved"


-----------------------------------------------------------------------------
(* Change detection, observed on the steps that run _refresh_domain.  In the *)
(* formulas below the unprimed store is the one before the refresh and the   *)
(* primed store the one after it.  Upstream ids are unique within an answer. *)

\* The step is a live refresh by get_all_violations
LiveRefresh ==
    /\ op'.name = "get_all_violations"
    /\ resp' # << >>
    /\ ~resp'[1].from_cache

\* The tenant the step refreshes
Refreshed == session[op'.session].domain

\* The fetch of dataset k succeeded in this step
Fetched(k) == upstream'[k].kind = "array"

\* The array cached for (d, k) before the step: empty when there is no row
Prior(d, k) ==
    IF <<d, k>> \in DOMAIN violation_cache
    THEN violation_cache[<<d, k>>].data_json ELSE << >>

\* The array cached for (d, k) after the step
Fresh(d, k) == violation_cache'[<<d, k>>].data_json

\* The change events the step appended for (d, k)
Logged(d, k) ==
    SelectSeq(SubSeq(violation_changes', Len(violation_changes) + 1,
                     Len(violation_changes')),
              LAMBDA e : e.domain = d /\ e.source = k)

LoggedFor(d, k, rid) == SelectSeq(Logged(d, k), LAMBDA e : e.record_id = rid)

Ids(arr) == {Get(arr[i], "_id", "") : i \in 1..Len(arr)} \ {""}

\* The ids of the records the upstream returned for dataset k
FetchedIds(k) ==
    {Get(upstream'[k].data[i], DATASETS[k].id_field, "") :
        i \in 1..Len(upstream'[k].data)} \ {""}

RecordOf(arr, rid) == arr[CHOOSE i \in 1..Len(arr) : Get(arr[i], "_id", "") = rid]

Differing(k, old, new) ==
    {f \in Range(_TRACKED_FIELDS[k]) : Get(old, f, "") # Get(new, f, "")}

\* C1: a refresh appends no change event for a (tenant, dataset) pair whose
\* prior cached array is missing or empty, whatever was fetched.
C1_FirstObservationSilent ==
    [][LiveRefresh =>
         \A k \in Datasets :
            Len(Prior(Refreshed, k)) = 0 => Logged(Refreshed, k) = << >>]_vars

\* The first refresh has populated the cache and logged nothing
C1_Witness ==
    /\ refreshes = 1
    /\ \E pk \in DOMAIN violation_cache : Len(violation_cache[pk].data_json) > 0
    /\ violation_changes = << >>

\* C2: with a non-empty prior array, an id present in both arrays whose
\* _status_class differs gets exactly one event: "resolved" when the new class
\* is resolved, else "status_changed", carrying only the old and new class.
C2_StatusChangeEvent ==
    [][LiveRefresh =>
         \A k \in Datasets :
            (Fetched(k) /\ Len(Prior(Refreshed, k)) > 0) =>
               \A rid \in Ids(Prior(Refreshed, k)) \cap FetchedIds(k) :
                  LET old == RecordOf(Prior(Refreshed, k), rid)
                      new == RecordOf(Fresh(Refreshed, k), rid)
                      ev  == LoggedFor(Refreshed, k, rid)
                  IN  old["_status_class"] # new["_status_class"] =>
                        /\ Len(ev) = 1
                        /\ ev[1].change_type =
                              IF new["_status_class"] = "resolved"
                              THEN "resolved" ELSE "status_changed"
                        /\ ev[1].old_value = [status |-> old["_status_class"]]
                        /\ ev[1].new_value = [status |-> new["_status_class"]]]_vars

\* Both kinds of status event have been logged, one of them for a record
\* whose tracked penalty changed in the same pass
C2_Witness ==
    /\ \E i \in 1..Len(violation_changes) :
          /\ violation_changes[i].change_type = "resolved"
          /\ violation_changes[i].record_id = "35001"
    /\ \E i \in 1..Len(violation_changes) :
          violation_changes[i].change_type = "status_changed"

\* C3: with a non-empty prior array, an id present in both arrays with the
\* same _status_class and at least one differing tracked field gets exactly
\* one "field_changed" event whose payloads map exactly the differing tracked
\* fields to their old and new values.
C3_FieldChangeEvent ==
    [][LiveRefresh =>
         \A k \in Datasets :
            (Fetched(k) /\ Len(Prior(Refreshed, k)) > 0) =>
               \A rid \in Ids(Prior(Refreshed, k)) \cap FetchedIds(k) :
                  LET old  == RecordOf(Prior(Refreshed, k), rid)
                      new  == RecordOf(Fresh(Refreshed, k), rid)
                      ev   == LoggedFor(Refreshed, k, rid)
                      diff == Differing(k, old, new)
                  IN  (old["_status_class"] = new["_status_class"] /\ diff # {}) =>
                        /\ Len(ev) = 1
                        /\ ev[1].change_type = "field_changed"
                        /\ DOMAIN ev[1].old_value = diff
                        /\ DOMAIN ev[1].new_value = diff
                        /\ \A f \in diff :
                              /\ ev[1].old_value[f] = Get(old, f, "")
                              /\ ev[1].new_value[f] = Get(new, f, "")]_vars

\* A field_changed event naming two of the three tracked fields
C3_Witness ==
    \E i \in 1..Len(violation_changes) :
       /\ violation_changes[i].change_type = "field_changed"
       /\ violation_changes[i].record_id = "T1"
       /\ DOMAIN violation_changes[i].old_value = {"hearing_status", "hearing_date"}
       /\ violation_changes[i].new_value["hearing_date"] = "2024-04-01"

\* C4: with a non-empty prior array, every id fetched and absent from the
\* prior array gets an event of type "new".
C4_NewEvent ==
    [][LiveRefresh =>
         \A k \in Datasets :
            (Fetched(k) /\ Len(Prior(Refreshed, k)) > 0) =>
               \A rid \in FetchedIds(k) \ Ids(Prior(Refreshed, k)) :
                  \E i \in 1..Len(LoggedFor(Refreshed, k, rid)) :
                     LoggedFor(Refreshed, k, rid)[i].change_type = "new"]_vars

C4_Witness ==
    \E i \in 1..Len(violation_changes) :
       /\ violation_changes[i].change_type = "new"
       /\ violation_changes[i].record_id = "35003"

\* Every fetched record of dataset k has a prior record with the same id, the
\* same _status_class and the same tracked-field values
NothingDiffers(d, k) ==
    \A rid \in FetchedIds(k) :
       /\ rid \in Ids(Prior(d, k))
       /\ LET old == RecordOf(Prior(d, k), rid)
              new == RecordOf(Fresh(d, k), rid)
          IN  /\ old["_status_class"] = new["_status_class"]
              /\ Differing(k, old, new) = {}

\* C5: a refresh whose fetched records all equal their prior records in
\* _status_class and tracked fields appends no change event; when that is so
\* for every dataset fetched, the change log does not grow.
C5_NoDifferenceNoEvent ==
    [][LiveRefresh =>
         /\ \A k \in Datasets :
               (Fetched(k) /\ NothingDiffers(Refreshed, k)) =>
                  Logged(Refreshed, k) = << >>
         /\ (\A k \in Datasets : Fetched(k) => NothingDiffers(Refreshed, k)) =>
               violation_changes' = violation_changes]_vars

\* Two refreshes were made and the second one, which had a baseline for the
\* permits dataset (its fetch never fails in these runs), logged nothing
C5_Witness ==
    /\ refreshes = 2
    /\ violation_changes = << >>
    /\ \A k \in Datasets :
          /\ <<"domaincos.com", k>> \in DOMAIN violation_cache
          /\ Len(violation_cache[<<"domaincos.com", k>>].data_json) > 0

\* C6: an id of the prior array that is not fetched again gets no change
\* event, and is no longer in the cache entry after the refresh.
C6_RemovedSilently ==
    [][LiveRefresh =>
         \A k \in Datasets :
            Fetched(k) =>
               \A rid \in Ids(Prior(Refreshed, k)) \ FetchedIds(k) :
                  /\ LoggedFor(Refreshed, k, rid) = << >>
                  /\ rid \notin Ids(Fresh(Refreshed, k))]_vars

\* 35001 was logged as resolved, so the prior array was the one that also
\* held 35002; 35002 is gone from the cache and was never logged
C6_Witness ==
    /\ refreshes = 2
    /\ \E i \in 1..Len(violation_changes) :
          /\ violation_changes[i].record_id = "35001"
          /\ violation_changes[i].change_type = "resolved"
    /\ "35002" \notin Ids(violation_cache[<<"domaincos.com", DatasetKeys[1]>>].data_json)
    /\ \A i \in 1..Len(violation_changes) : violation_changes[i].record_id # "35002"


-----------------------------------------------------------------------------
(* The freshness gate and the response of get_all_violations *)

\* The tenant has a cache entry for every configured dataset
AllCached(d) == \A k \in Datasets : <<d, k>> \in DOMAIN violation_cache

\* The age in minutes of the tenant's oldest cache entry
OldestAge(d) == SetMax({now - violation_cache[<<d, k>>].fetched_at : k \in Datasets}, 0)

\* The step answered from the cache: no upstream call, no store write
ServedFromCache(d) ==
    /\ resp'[1].from_cache
    /\ upstream' = << >>
    /\ UNCHANGED <<violation_cache, violation_snapshots, violation_changes>>
    /\ \A k \in Datasets : resp'[1].results[k] = violation_cache[<<d, k>>].data_json

\* The step queried every configured dataset, cached what it fetched and
\* answered from the cache as written
RefreshedEveryDataset(d) ==
    /\ ~resp'[1].from_cache
    /\ DOMAIN upstream' = Datasets
    /\ \A k \in Datasets :
          Fetched(k) =>
             /\ <<d, k>> \in DOMAIN violation_cache'
             /\ violation_cache'[<<d, k>>].fetched_at = now
             /\ Len(violation_cache'[<<d, k>>].data_json) = Len(upstream'[k].data)
    /\ DOMAIN resp'[1].results = {k \in Datasets : <<d, k>> \in DOMAIN violation_cache'}
    /\ \A k \in DOMAIN resp'[1].results :
          resp'[1].results[k] = violation_cache'[<<d, k>>].data_json

GateStep(d) ==
    IF ~op'.refresh /\ AllCached(d) /\ OldestAge(d) <= StaleAfter
    THEN ServedFromCache(d)
    ELSE RefreshedEveryDataset(d)

\* C9: get_all_violations serves from cache, with no upstream call and no
\* store write, exactly when refresh was not forced, every configured dataset
\* has a cache entry for the tenant and the oldest entry is at most 1440
\* minutes old; otherwise it refreshes every dataset and answers from the
\* cache it wrote.
C9_FreshnessGate ==
    [][op'.name = "get_all_violations" => GateStep(session[op'.session].domain)]_vars

\* The same statement for the SQLite backend alone, where fetched_at is read
\* back as text
FreshnessGateOnSqlite ==
    [][(op'.name = "get_all_violations" /\ backend = "sqlite") =>
          GateStep(session[op'.session].domain)]_vars

\* A request answered from the cache (SQLite) at the threshold age
FreshnessGateOnSqlite_Witness ==
    /\ op.name = "get_all_violations"
    /\ resp[1].from_cache
    /\ \E k \in Datasets :
          now - violation_cache[<<session[op.session].domain, k>>].fetched_at = StaleAfter

\* The number of returned records of class cls in the datasets ks
Returned(ks, cls) ==
    Cardinality({<<k, i>> \in UNION {{k} \X (1..Len(resp[1].results[k])) :
                                        k \in ks} :
                    resp[1].results[k][i]["_status_class"] = cls})

StatusClasses == {"open", "resolved", "pending"}

\* C10: in every response of get_all_violations, summary[s] is the number of
\* returned records of class s, summary.total is the number of returned
\* records and equals open + resolved + pending, and every by_source entry
\* holds the same tallies for its dataset.
C10_SummaryTallies ==
    op.name = "get_all_violations" =>
       LET r  == resp[1]
           ks == DOMAIN r.results
       IN  /\ \A cls \in StatusClasses : r.summary[cls] = Returned(ks, cls)
           /\ r.summary["total"] = Cardinality(UNION {{k} \X (1..Len(r.results[k])) : k \in ks})
           /\ r.summary["total"] =
                 r.summary["open"] + r.summary["resolved"] + r.summary["pending"]
           /\ DOMAIN r.by_source = ks
           /\ \A k \in ks :
                 /\ r.by_source[k]["count"] = Len(r.results[k])
                 /\ \A cls \in StatusClasses :
                       r.by_source[k][cls] = Returned({k}, cls)

\* A response over three datasets holding records of all three classes
C10_Witness ==
    /\ op.name = "get_all_violations"
    /\ DOMAIN resp[1].results = Datasets
    /\ \A cls \in StatusClasses : resp[1].summary[cls] > 0
    /\ \E k \in Datasets : resp[1].by_source[k]["count"] < resp[1].summary["total"]
    /\ \E k \in Datasets :
          /\ resp[1].by_source[k]["open"] > 0
          /\ resp[1].by_source[k]["open"] < resp[1].summary["open"]


-----------------------------------------------------------------------------
(* Settings, startup and the scheduled refresh *)

\* Bodies of POST /api/settings
SettingsBodies ==
    { [search_term |-> " VOREA "],
      [company_name |-> "Schimenti Construction"] }

RECURSIVE SaveSettings(_, _, _, _)
\* "for key in ['company_name', 'search_term']: if key in d: INSERT OR REPLACE"
SaveSettings(settings, keys, d, domain) ==
    IF keys = << >> THEN settings
    ELSE SaveSettings(IF Head(keys) \in DOMAIN d
                      THEN Put(settings, <<Head(keys), domain>>,
                               Strip(d[Head(keys)], Whitespace))
                      ELSE settings,
                      Tail(keys), d, domain)

\* DELETE FROM violation_cache, without the WHERE clause
DeleteCacheEverywhere(cache, domain) == << >>

\* A settings change that leaves the cache as it is
KeepCache(cache, domain) == cache

\* DELETE FROM violation_cache WHERE domain=?
DeleteCache(cache, domain) ==
    [pk \in {x \in DOMAIN cache : x[1] # domain} |-> cache[pk]]

\* POST /api/settings for the session s with the JSON body d
save_app_settings(s, d) ==
    /\ session[s] # LoggedOut
    /\ LET domain == session[s].domain
       IN  /\ app_settings' = SaveSettings(app_settings,
                                           <<"company_name", "search_term">>, d, domain)
           /\ violation_cache' = IF "search_term" \in DOMAIN d
                                 THEN DeleteCache(violation_cache, domain)
                                 ELSE violation_cache
           /\ session' = [session EXCEPT ![s] =
                 [domain       |-> domain,
                  company_name |-> IF "company_name" \in DOMAIN d
                                   THEN Strip(d["company_name"], Whitespace)
                                   ELSE session[s].company_name,
                  search_term  |-> IF "search_term" \in DOMAIN d
                                   THEN Strip(d["search_term"], Whitespace)
                                   ELSE session[s].search_term]]
    /\ op' = [name |-> "save_app_settings", session |-> s]
    /\ upstream' = << >>
    /\ resp' = << [success |-> TRUE] >>
    /\ UNCHANGED <<backend, inflight, sched, registry, now, violation_snapshots, violation_changes,
                   refreshes, call, email_config>>

\* The app_settings table after the SQLite branch of init_db has copied it:
\* every row is inserted under domain 'domaincos.com' with INSERT OR IGNORE, so
\* for each key one of its rows survives (which one depends on the scan order).
MigratedSettings(settings) ==
    LET keys == {pk[1] : pk \in DOMAIN settings}
    IN  { [pk \in {<<k, "domaincos.com">> : k \in keys} |-> settings[pick[pk[1]]]] :
            pick \in { f \in [keys -> DOMAIN settings] : \A k \in keys : f[k][1] = k } }

\* init_db() at import: a restart of the process.  The SQLite branch drops and
\* recreates the three cache/log tables; the Postgres branch recreates a table
\* only when it lacks the domain column, which the schema it creates has.
init_db ==
    /\ IF backend = "sqlite"
       THEN /\ violation_cache' = << >>
            /\ violation_snapshots' = << >>
            /\ violation_changes' = << >>
            /\ app_settings' \in MigratedSettings(app_settings)
       ELSE UNCHANGED <<violation_cache, violation_snapshots, violation_changes,
                        app_settings>>
    /\ op' = [name |-> "init_db"]
    /\ upstream' = << >>
    /\ resp' = << >>
    /\ UNCHANGED <<backend, inflight, sched, registry, now, session, refreshes, call, email_config>>

\* SELECT domain, search_term FROM company_domains (rows in insertion order)
domain_rows == <<"domaincos.com", "vorea.com", "schimenti.com">>

RECURSIVE RefreshDomains(_, _, _, _)
\* "for row in domain_rows: _refresh_domain(...)"; envs gives, per search
\* term, what the upstream answers
RefreshDomains(store, i, today, envs) ==
    IF i > Len(domain_rows) THEN store
    ELSE LET search == company_domains[domain_rows[i]].search_term
         IN  The({ RefreshDomains(next, i + 1, today, envs) :
                     next \in {_refresh_domain(store, domain_rows[i], search,
                                               today, envs[search])} })

\* The scheduled job refresh_all_cache
refresh_all_cache(envs) ==
    /\ refreshes < MaxRefreshes
    /\ \E store \in {RefreshDomains([cache   |-> violation_cache,
                                     snaps   |-> violation_snapshots,
                                     changes |-> violation_changes],
                                    1, Today, envs)} :
          /\ violation_cache' = store.cache
          /\ violation_snapshots' = store.snaps
          /\ violation_changes' = store.changes
    /\ refreshes' = refreshes + 1
    /\ op' = [name |-> "refresh_all_cache"]
    /\ upstream' = [d \in Range(domain_rows) |->
                       envs[company_domains[d].search_term].answers]
    /\ resp' = << >>
    /\ UNCHANGED <<backend, inflight, sched, registry, now, session, call, app_settings, email_config>>

\* What the upstream answers to the scheduled job, per search term
JobEnvs ==
    { ("VOREA" :> a) @@ ("Schimenti" :> b) :
        a \in {Env(Array(EcbB), Failed("error_dict"), Array(DotC), RemoteDown)},
        b \in {Env(Array(EcbB), Array(OathB), Array(DotB), RemoteUp)} }

\* Upstream behaviours for the runs with settings changes and restarts
StoreEnvs ==
    { Env(Array(EcbA), Array(OathA), Failed("request_exception"), RemoteUp) }

NextStore ==
    \/ \E s \in Sessions : login(s)
    \/ \E s \in Sessions, force \in BOOLEAN, env \in StoreEnvs :
          get_all_violations(s, force, env)
    \/ \E s \in Sessions, d \in SettingsBodies : save_app_settings(s, d)
    \/ init_db
    \/ \E envs \in JobEnvs : refresh_all_cache(envs)

\* Requests, settings changes, restarts and the scheduled job, in any order
SpecStore == Init /\ [][NextStore]_vars


-----------------------------------------------------------------------------
(* Partial failure of a refresh *)

\* Upstream behaviours with one dataset failing, at each position of the
\* processing order, and with none failing
PartialEnvs ==
    { Env(Array(EcbA), Array(OathA), Array(DotA), RemoteUp),
      Env(Failed("request_exception"), Array(OathB), Array(DotB), RemoteUp),
      Env(Array(EcbB), Failed("error_dict"), Array(DotC), RemoteDown),
      Env(Array(EcbB), Array(OathA), Failed("request_exception"), RemoteUp) }

NextPartial ==
    \/ login("s1")
    \/ \E d \in TickSteps : Tick(d)
    \/ \E force \in BOOLEAN, env \in PartialEnvs :
          get_all_violations("s1", force, env)

\* One tenant refreshing while single datasets fail
SpecPartial == Init /\ [][NextPartial]_vars

\* The snapshots of dataset k for tenant d
SnapshotsOf(snaps, d, k) ==
    [pk \in {x \in DOMAIN snaps : x[1] = k /\ x[3] = d} |-> snaps[pk]]

\* Dataset k was enriched, diffed against the prior array and written to the
\* cache and to today's snapshot by the step
SavedInThisCycle(d, k) ==
    /\ <<d, k>> \in DOMAIN violation_cache'
    /\ LET row  == violation_cache'[<<d, k>>]
           raw  == upstream'[k].data
       IN  /\ row.fetched_at = now
           /\ Len(row.data_json) = Len(raw)
           /\ \A i \in 1..Len(raw) :
                 /\ row.data_json[i]["_status_class"] = classify_status(raw[i], k)
                 /\ row.data_json[i]["_source"] = k
                 /\ \A f \in DOMAIN raw[i] : row.data_json[i][f] = raw[i][f]
           /\ <<k, Today, d>> \in DOMAIN violation_snapshots'
           /\ violation_snapshots'[<<k, Today, d>>].data_json = row.data_json
           /\ violation_snapshots'[<<k, Today, d>>].fetched_at = now
           /\ Logged(d, k) =
                 Stamped(_detect_and_save_changes(d, k, Prior(d, k), row.data_json), 1)

\* C11: in a refresh of a tenant in which the fetch of some dataset fails,
\* every dataset whose fetch succeeds is still enriched, diffed and written to
\* the cache and the snapshot in that cycle, wherever the failing dataset
\* stands in the processing order.
C11_FailureDoesNotStopRefresh ==
    [][(LiveRefresh /\ \E j \in Datasets : ~Fetched(j)) =>
          \A k \in Datasets : Fetched(k) => SavedInThisCycle(Refreshed, k)]_vars

\* The first dataset of the order failed and the two after it were saved, the
\* second with change events against its earlier array
C11_Witness ==
    /\ op.name = "get_all_violations"
    /\ upstream # << >>
    /\ upstream[DatasetKeys[1]].kind = "request_exception"
    /\ now > 0
    /\ \A i \in {2, 3} :
          /\ <<"domaincos.com", DatasetKeys[i]>> \in DOMAIN violation_cache
          /\ violation_cache[<<"domaincos.com", DatasetKeys[i]>>].fetched_at = now
          /\ <<DatasetKeys[i], Today, "domaincos.com">> \in DOMAIN violation_snapshots
    /\ \E i \in 1..Len(violation_changes) :
          /\ violation_changes[i].source = DatasetKeys[2]
          /\ violation_changes[i].detected_at = now

\* C13: when the fetch of a dataset fails during a refresh, the cache entry of
\* that (tenant, dataset) keeps its content, fetch timestamp and search term
\* (or stays absent), no snapshot of the pair is written and no change event
\* is appended for it.
C13_FailureLeavesEntry ==
    [][LiveRefresh =>
          \A k \in Datasets :
             ~Fetched(k) =>
                /\ (<<Refreshed, k>> \in DOMAIN violation_cache') =
                      (<<Refreshed, k>> \in DOMAIN violation_cache)
                /\ <<Refreshed, k>> \in DOMAIN violation_cache =>
                      violation_cache'[<<Refreshed, k>>] = violation_cache[<<Refreshed, k>>]
                /\ SnapshotsOf(violation_snapshots', Refreshed, k) =
                      SnapshotsOf(violation_snapshots, Refreshed, k)
                /\ Logged(Refreshed, k) = << >>]_vars

\* A dataset failed in a refresh made later than the one that cached it: its
\* entry still holds the earlier records and timestamp
C13_Witness ==
    /\ op.name = "get_all_violations"
    /\ upstream # << >>
    /\ \E k \in Datasets :
          /\ upstream[k].kind # "array"
          /\ <<"domaincos.com", k>> \in DOMAIN violation_cache
          /\ violation_cache[<<"domaincos.com", k>>].fetched_at < now
          /\ Len(violation_cache[<<"domaincos.com", k>>].data_json) > 0
          /\ \E j \in Datasets :
                violation_cache[<<"domaincos.com", j>>].fetched_at = now


\* C12: every response of get_all_violations has exactly one entry per
\* configured dataset in results and in summary.by_source, and a dataset whose
\* fetch failed in that request is reported as an empty entry.
C12_CompleteResponse ==
    op.name = "get_all_violations" =>
       /\ DOMAIN resp[1].results = Datasets
       /\ DOMAIN resp[1].by_source = Datasets
       /\ \A k \in Datasets :
             (upstream # << >> /\ upstream[k].kind # "array") =>
                /\ resp[1].results[k] = << >>
                /\ resp[1].by_source[k]["count"] = 0


-----------------------------------------------------------------------------
(* Store invariants *)

\* The rows of table violation_cache
CacheTable(cache) ==
    {[source |-> pk[2], domain |-> pk[1]] @@ cache[pk] : pk \in DOMAIN cache}

\* The rows of table violation_snapshots
SnapshotTable(snaps) ==
    {[source |-> pk[1], snapshot_date |-> pk[2], domain |-> pk[3]] @@ snaps[pk] :
        pk \in DOMAIN snaps}

\* C14: the store never holds two cache entries for one (dataset, tenant), and
\* a successful refresh replaces the entry wholesale: its array is the newly
\* enriched one, record for record, and holds no id of the previous array that
\* was not fetched again.
C14_CacheReplacedWholesale ==
    [][/\ \A r1, r2 \in CacheTable(violation_cache') :
             (r1.source = r2.source /\ r1.domain = r2.domain) => r1 = r2
       /\ LiveRefresh =>
             \A k \in Datasets :
                Fetched(k) =>
                   /\ Len(Fresh(Refreshed, k)) = Len(upstream'[k].data)
                   /\ \A i \in 1..Len(upstream'[k].data) :
                         \A f \in DOMAIN upstream'[k].data[i] :
                            Fresh(Refreshed, k)[i][f] = upstream'[k].data[i][f]
                   /\ Ids(Fresh(Refreshed, k)) = FetchedIds(k)]_vars

\* An entry that held 35001 and 35002 now holds the three records fetched
\* last, without 35002
C14_Witness ==
    \E d \in {"domaincos.com", "schimenti.com"} :
       /\ <<d, DatasetKeys[1]>> \in DOMAIN violation_cache
       /\ Len(violation_cache[<<d, DatasetKeys[1]>>].data_json) = 3
       /\ Ids(violation_cache[<<d, DatasetKeys[1]>>].data_json) = {"35001", "35003"}
       /\ \E i \in 1..Len(violation_changes) :
             /\ violation_changes[i].domain = d
             /\ violation_changes[i].record_id = "35003"
             /\ violation_changes[i].change_type = "new"

\* C15: the store never holds two snapshots for one (dataset, tenant, day);
\* after a successful refresh today's snapshot of the pair holds the array and
\* the record count just fetched, and every snapshot of an earlier day is as
\* it was.
C15_OneSnapshotPerDay ==
    [][/\ \A r1, r2 \in SnapshotTable(violation_snapshots') :
             (r1.source = r2.source /\ r1.domain = r2.domain
                 /\ r1.snapshot_date = r2.snapshot_date) => r1 = r2
       /\ LiveRefresh =>
             /\ \A k \in Datasets :
                   Fetched(k) =>
                      /\ <<k, Today, Refreshed>> \in DOMAIN violation_snapshots'
                      /\ violation_snapshots'[<<k, Today, Refreshed>>].data_json =
                            Fresh(Refreshed, k)
                      /\ violation_snapshots'[<<k, Today, Refreshed>>].record_count =
                            Len(upstream'[k].data)
             /\ \A pk \in DOMAIN violation_snapshots :
                   pk[2] < Today =>
                      /\ pk \in DOMAIN violation_snapshots'
                      /\ violation_snapshots'[pk] = violation_snapshots[pk]]_vars

\* A tenant refreshed on two days: yesterday's snapshot of the first dataset
\* still holds the two records fetched then, today's the three fetched today
EarlierDayKept ==
    \E d \in {"domaincos.com", "schimenti.com"} :
       /\ Today = 1
       /\ <<DatasetKeys[1], 0, d>> \in DOMAIN violation_snapshots
       /\ <<DatasetKeys[1], 1, d>> \in DOMAIN violation_snapshots
       /\ violation_snapshots[<<DatasetKeys[1], 0, d>>].record_count = 2
       /\ violation_snapshots[<<DatasetKeys[1], 1, d>>].record_count = 3

\* Two refreshes of a tenant on one day left one snapshot, of the second
C15_Witness ==
    \E d \in {"domaincos.com", "schimenti.com"} :
       /\ Today = 0
       /\ <<DatasetKeys[1], 0, d>> \in DOMAIN violation_snapshots
       /\ violation_snapshots[<<DatasetKeys[1], 0, d>>].record_count = 3
       /\ \E i \in 1..Len(violation_changes) :
             violation_changes[i].domain = d /\ violation_changes[i].record_id = "35003"


-----------------------------------------------------------------------------
(* The change log and the tenant partition, over all store-writing operations *)

\* Every event recorded before the step is still there after it, unchanged
\* and at the same place
LogKept ==
    /\ Len(violation_changes') >= Len(violation_changes)
    /\ SubSeq(violation_changes', 1, Len(violation_changes)) = violation_changes

\* C16: no operation (refresh, settings change, scheduled job, startup
\* initialisation) modifies or deletes a recorded change event: the log only
\* grows.
C16_ChangeLogAppendOnly == [][LogKept]_vars

\* The same statement for the Postgres backend alone
ChangeLogAppendOnlyOnPostgres == [][backend = "pg" => LogKept]_vars

\* The cache entries, snapshots and change events of the tenants other than d
OthersCache(cache, d) == [pk \in {x \in DOMAIN cache : x[1] # d} |-> cache[pk]]
OthersSnapshots(snaps, d) == [pk \in {x \in DOMAIN snaps : x[3] # d} |-> snaps[pk]]
OthersChanges(changes, d) == SelectSeq(changes, LAMBDA e : e.domain # d)

\* C17: a refresh or a settings change made for one tenant leaves every cache
\* entry, snapshot and change event of every other tenant unchanged, also when
\* tenants use the same search term.
C17_WritesConfinedToTenant ==
    [][op'.name \in {"get_all_violations", "save_app_settings"} =>
          LET d == session[op'.session].domain
          IN  /\ OthersCache(violation_cache', d) = OthersCache(violation_cache, d)
              /\ OthersSnapshots(violation_snapshots', d) =
                    OthersSnapshots(violation_snapshots, d)
              /\ OthersChanges(violation_changes', d) =
                    OthersChanges(violation_changes, d)]_vars

\* Two tenants with the same search term and cached data each; one of them
\* has changed its settings and refreshed
C17_Witness ==
    /\ op.name = "get_all_violations"
    /\ op.session = "s2"
    /\ ~resp[1].from_cache
    /\ session["s1"] # LoggedOut
    /\ session["s2"].search_term = session["s1"].search_term
    /\ <<"search_term", "schimenti.com">> \in DOMAIN app_settings
    /\ \E k \in Datasets :
          /\ <<"domaincos.com", k>> \in DOMAIN violation_cache
          /\ <<"schimenti.com", k>> \in DOMAIN violation_cache
          /\ violation_cache[<<"domaincos.com", k>>].data_json #
                violation_cache[<<"schimenti.com", k>>].data_json


-----------------------------------------------------------------------------
(* The upstream client on its own *)

-----------------------------------------------------------------------------
(* Read-side handlers: cache status, change list, digest, single dataset *)

\* The rows of table violation_changes; id is the AUTOINCREMENT / SERIAL key
ChangeTable(changes) == {[id |-> i] @@ changes[i] : i \in 1..Len(changes)}

\* "detected_at >= ?" with cutoff = (utcnow() - timedelta(days)).isoformat().
\* On Postgres both sides are timestamps.  On SQLite both are text,
\* 'YYYY-MM-DD HH:MM:SS' against 'YYYY-MM-DDTHH:MM:SS': on the same date the
\* blank sorts before the 'T', so the row passes only on a later date.
SinceCutoff(detected_at, days) ==
    LET cutoff == now - days * MinutesPerDay
    IN  IF backend = "pg" THEN detected_at >= cutoff
        ELSE detected_at \div MinutesPerDay > cutoff \div MinutesPerDay

\* The columns get_changes selects
ChangeColumns ==
    {"id", "detected_at", "source", "record_id", "change_type", "old_value",
     "new_value", "address", "description"}

\* The rows get_changes / get_changes_count select from the table
RecentChanges(table, domain, days) ==
    {[c \in ChangeColumns |-> r[c]] :
        r \in {x \in table : x.domain = domain /\ SinceCutoff(x.detected_at, days)}}

\* The body of GET /api/cache/status computed from the cache rows it selects
StatusBody(cache, domain) ==
    [k \in {x \in Datasets : <<domain, x>> \in DOMAIN cache} |->
        LET fetched_at == DriverTimestamp(cache[<<domain, k>>].fetched_at)
        IN  [fetched_at |-> fetched_at,
             age_sec    |-> _cache_age_minutes(fetched_at) * 60,
             age_min    |-> _cache_age_minutes(fetched_at)]]

\* send_digest: the summary built from the cache rows it selects.  One line
\* of rows_info per row of the table, here indexed by the row's key.
DigestOf(cache) ==
    LET info == [pk \in DOMAIN cache |->
                    [source |-> pk[2],
                     count  |-> Len(cache[pk].data_json),
                     open   |-> Cardinality({i \in 1..Len(cache[pk].data_json) :
                                   Get(cache[pk].data_json[i], "_status_class", "") = "open"})]]
        RECURSIVE Sum(_, _)
        Sum(S, f) == IF S = {} THEN 0
                     ELSE LET x == CHOOSE y \in S : TRUE
                          IN  info[x][f] + Sum(S \ {x}, f)
    IN  [total     |-> Sum(DOMAIN cache, "count"),
         open_cnt  |-> Sum(DOMAIN cache, "open"),
         rows_info |-> info]

\* GET /api/cache/status
cache_status(s) ==
    /\ session[s] # LoggedOut
    /\ resp' = << StatusBody(violation_cache, session[s].domain) >>
    /\ op' = [name |-> "cache_status", session |-> s]
    /\ upstream' = << >>
    /\ UNCHANGED <<backend, inflight, sched, registry, now, session, violation_cache, violation_snapshots,
                   violation_changes, refreshes, call, app_settings, email_config>>

\* GET /api/changes/count
get_changes_count(s) ==
    /\ session[s] # LoggedOut
    /\ resp' = << [count |-> Cardinality(RecentChanges(ChangeTable(violation_changes),
                                                       session[s].domain, 7))] >>
    /\ op' = [name |-> "get_changes_count", session |-> s]
    /\ upstream' = << >>
    /\ UNCHANGED <<backend, inflight, sched, registry, now, session, violation_cache, violation_snapshots,
                   violation_changes, refreshes, call, app_settings, email_config>>

\* GET /api/changes?days=...
get_changes(s, days) ==
    /\ session[s] # LoggedOut
    /\ LET rows == RecentChanges(ChangeTable(violation_changes), session[s].domain, days)
       IN  resp' = << [changes |-> rows, count |-> Cardinality(rows), days |-> days] >>
    /\ op' = [name |-> "get_changes", session |-> s, days |-> days]
    /\ upstream' = << >>
    /\ UNCHANGED <<backend, inflight, sched, registry, now, session, violation_cache, violation_snapshots,
                   violation_changes, refreshes, call, app_settings, email_config>>

\* POST /api/email_config: INSERT OR REPLACE of the row with id = 1.  SQLite
\* replaces the row, so last_sent returns to NULL; the Postgres upsert does
\* not list last_sent and keeps it.
save_email_config(s) ==
    /\ session[s] # LoggedOut
    /\ email_config' =
          << [recipient |-> "pm@vorea.com", smtp_user |-> "digest@vorea.com",
              smtp_pass |-> "set",
              last_sent |-> IF backend = "pg" /\ email_config # << >>
                            THEN email_config[1].last_sent ELSE {}] >>
    /\ resp' = << [success |-> TRUE] >>
    /\ op' = [name |-> "save_email_config", session |-> s]
    /\ upstream' = << >>
    /\ UNCHANGED <<backend, inflight, sched, registry, now, session, violation_cache, violation_snapshots,
                   violation_changes, refreshes, call, app_settings>>

\* POST /api/send_digest; smtp_ok tells whether the SMTP conversation succeeds.
\* mail holds the digest handed to the mail server, if any.
api_send_digest(s, smtp_ok) ==
    /\ session[s] # LoggedOut
    /\ IF email_config = << >>
       THEN /\ resp' = << [success |-> FALSE, message |-> "No recipient configured",
                           mail |-> << >>] >>
            /\ UNCHANGED email_config
       ELSE IF email_config[1].smtp_user = "" \/ email_config[1].smtp_pass = ""
       THEN /\ resp' = << [success |-> FALSE, message |-> "SMTP credentials not configured",
                           mail |-> << >>] >>
            /\ UNCHANGED email_config
       ELSE IF DOMAIN violation_cache = {}
       THEN /\ resp' = << [success |-> FALSE, message |-> "No cached data to report",
                           mail |-> << >>] >>
            /\ UNCHANGED email_config
       ELSE IF smtp_ok
       THEN /\ resp' = << [success |-> TRUE, message |-> "Digest sent successfully",
                           mail |-> << [to |-> email_config[1].recipient] @@
                                       DigestOf(violation_cache) >>] >>
            /\ email_config' = << [email_config[1] EXCEPT !.last_sent = {now}] >>
       ELSE /\ resp' = << [success |-> FALSE, message |-> "SMTP error", mail |-> << >>] >>
            /\ UNCHANGED email_config
    /\ op' = [name |-> "api_send_digest", session |-> s]
    /\ upstream' = << >>
    /\ UNCHANGED <<backend, inflight, sched, registry, now, session, violation_cache, violation_snapshots,
                   violation_changes, refreshes, call, app_settings>>

RECURSIVE EnrichEach(_, _, _)
\* The enrichment loop of get_violations: no _source, no BIN lookup
EnrichEach(records, i, dataset) ==
    IF i > Len(records) THEN << >>
    ELSE LET rec       == records[i]
             ds_config == DATASETS[dataset]
             date      == Get(rec, ds_config.date_field, "")
         IN  << Put(Put(Put(Put(Put(rec,
                   "_status_class", classify_status(rec, dataset)),
                   "_id", Get(rec, ds_config.id_field, "")),
                   "_date", IF date # "" THEN Prefix(date, DateLen) ELSE ""),
                   "_status_val", Get(rec, ds_config.status_field, "N/A")),
                   "_address", compute_address(rec, ds_config)) >>
             \o EnrichEach(records, i + 1, dataset)

\* GET /api/violations?dataset=...; answer is what the upstream returns if
\* it is called
get_violations(s, dataset, answer) ==
    /\ session[s] # LoggedOut
    /\ IF dataset \notin Datasets
       THEN /\ resp' = << [status |-> 400, error |-> "Unknown dataset"] >>
            /\ upstream' = << >>
       ELSE LET result == fetch_violations(dataset, session[s].search_term, answer)
            IN  /\ resp' = << [status |-> 200] @@
                              (IF result.success
                               THEN [result EXCEPT !.data = EnrichEach(result.data, 1, dataset)]
                               ELSE result) >>
                /\ upstream' = (dataset :> answer)
    /\ op' = [name |-> "get_violations", session |-> s, dataset |-> dataset]
    /\ UNCHANGED <<backend, inflight, sched, registry, now, session, violation_cache, violation_snapshots,
                   violation_changes, refreshes, call, app_settings, email_config>>

\* The sessions that read in the read-side runs: users of the two seeded
\* tenants.  The user whose domain has no row in company_domains logs in
\* and asks for single datasets.
Readers == Sessions

\* The dataset parameter of /api/violations: a configured name, or the
\* parameter's default, which is no configured name
DatasetParams == {DatasetKeys[3], "DOB Violations"}

ReadEnvs == { Env(Array(EcbA), Array(OathA), Array(DotA), RemoteUp) }

\* What the upstream answers to the scheduled job, per search term
ReadJobEnvs ==
    { ("VOREA" :> e) @@ ("Schimenti" :> e) :
        e \in { Env(Array(EcbA), Array(OathA), Array(DotA), RemoteUp),
                Env(Array(EcbB), Array(OathB), Array(DotB), RemoteUp) } }

InitRead ==
    /\ backend \in {"sqlite", "pg"}
    /\ now = 0
    /\ session = [s \in DOMAIN UserDomain |-> LoggedOut]
    /\ violation_cache = << >>
    /\ violation_snapshots = << >>
    /\ violation_changes = << >>
    /\ op = [name |-> "init_db"]
    /\ upstream = << >>
    /\ resp = << >>
    /\ refreshes = 0
    /\ call = NoCall
    /\ app_settings = << >>
    /\ email_config = << >>
    /\ InitIdle

NextRead ==
    \/ \E s \in DOMAIN UserDomain : login(s)
    \/ \E s \in Readers, force \in BOOLEAN, env \in ReadEnvs :
          get_all_violations(s, force, env)
    \/ \E envs \in ReadJobEnvs : refresh_all_cache(envs)
    \/ \E s \in Readers : save_email_config(s)
    \/ \E s \in Readers : cache_status(s)
    \/ \E s \in Readers : get_changes_count(s)
    \/ \E s \in Readers, days \in {0, 7} : get_changes(s, days)
    \/ \E s \in Readers, smtp_ok \in BOOLEAN : api_send_digest(s, smtp_ok)
    \/ \E s \in DOMAIN UserDomain, dataset \in DatasetParams,
          answer \in {Array(DotA), Failed("request_exception")} :
          get_violations(s, dataset, answer)

\* Tenants being refreshed and reading
SpecRead == InitRead /\ [][NextRead]_vars

-----------------------------------------------------------------------------
(* Tenant isolation of what is read *)

\* The cache rows of one tenant
OwnCache(d) ==
    [pk \in {x \in DOMAIN violation_cache : x[1] = d} |-> violation_cache[pk]]

\* The change-log rows of one tenant
OwnChanges(d) == {r \in ChangeTable(violation_changes) : r.domain = d}

\* The tenant on whose behalf the last request ran
Tenant == session[op.session].domain

\* The aggregated view is computed from the tenant's own cache rows
AggregateFromOwnRows ==
    op.name = "get_all_violations" =>
        LET agg == Aggregate(CacheRows(OwnCache(Tenant), Tenant), 1, EmptyAggregate)
        IN  /\ resp[1].results = agg.results
            /\ resp[1].summary = agg.summary
            /\ resp[1].by_source = agg.by_source

\* The cache status is computed from the tenant's own cache rows
StatusFromOwnRows ==
    op.name = "cache_status" => resp[1] = StatusBody(OwnCache(Tenant), Tenant)

\* The change list and the change count are computed from the tenant's own log rows
ChangesFromOwnRows ==
    /\ op.name = "get_changes" =>
          /\ resp[1].changes = RecentChanges(OwnChanges(Tenant), Tenant, op.days)
          /\ resp[1].count = Cardinality(resp[1].changes)
    /\ op.name = "get_changes_count" =>
          resp[1].count = Cardinality(RecentChanges(OwnChanges(Tenant), Tenant, 7))

\* The digest that is mailed is computed from the tenant's own cache rows
DigestFromOwnRows ==
    (op.name = "api_send_digest" /\ resp[1].mail # << >>) =>
        /\ resp[1].mail[1].total = DigestOf(OwnCache(Tenant)).total
        /\ resp[1].mail[1].open_cnt = DigestOf(OwnCache(Tenant)).open_cnt
        /\ resp[1].mail[1].rows_info = DigestOf(OwnCache(Tenant)).rows_info

\* The views that filter by session['domain'] show the tenant's rows only
FilteredViewsIsolated ==
    AggregateFromOwnRows /\ StatusFromOwnRows /\ ChangesFromOwnRows

\* C18: every view a logged-in user of a tenant is given (the aggregated
\* view, the cache status, the change list, the change count, the digest)
\* is a function of that tenant's rows only: it equals the same view
\* computed on the store with every other tenant's rows removed.
C18_TenantIsolation ==
    FilteredViewsIsolated /\ DigestFromOwnRows

\* A digest was mailed while another tenant had rows in the cache, and the
\* filtered views had changes and cache rows of the tenant to show
DigestSentWithTwoTenants ==
    /\ op.name = "api_send_digest" /\ resp[1].mail # << >>
    /\ \E pk \in DOMAIN violation_cache : pk[1] # Tenant
    /\ \E pk \in DOMAIN violation_cache : pk[1] = Tenant

\* A change list with entries is returned while another tenant has entries too
ChangesListedWithTwoTenants ==
    /\ op.name = "get_changes" /\ resp[1].count > 0
    /\ \E r \in ChangeTable(violation_changes) : r.domain # Tenant

-----------------------------------------------------------------------------
(* Configuration lookups that find nothing *)

\* A request for a dataset name that is not configured is answered 400 with
\* an error body, and no upstream call is made
UnknownDatasetRejected ==
    (op.name = "get_violations" /\ op.dataset \notin Datasets) =>
        /\ resp[1].status = 400
        /\ "error" \in DOMAIN resp[1]
        /\ upstream = << >>

UnknownDatasetAsked ==
    op.name = "get_violations" /\ op.dataset \notin Datasets

\* No session acts for a tenant without a company_domains row
UnconfiguredTenantRefused ==
    \A s \in DOMAIN session :
        session[s] # LoggedOut => session[s].domain \in DOMAIN company_domains

UnconfiguredTenantFetched ==
    /\ op.name = "get_violations" /\ op.dataset \in Datasets
    /\ session[op.session].domain \notin DOMAIN company_domains
    /\ session[op.session].search_term = session[op.session].domain
    /\ resp[1].status = 200

-----------------------------------------------------------------------------
(* Staleness after a failed fetch *)

\* The cache slot (d, k) is absent, or older than the threshold
StaleSlot(cache, d, k) ==
    \/ <<d, k>> \notin DOMAIN cache
    \/ now - cache[<<d, k>>].fetched_at > StaleAfter

\* A non-forced gate evaluation for tenant d on the cache given would refresh
GateRefreshes(cache, d) == ~UseCache(CacheRows(cache, d), FALSE)

\* C21: when a refresh fails to fetch a dataset whose cache slot is absent or
\* stale by age, the slot is still absent or stale after the refresh, and the
\* tenant's next non-forced gate evaluation refreshes again: a failed fetch
\* never makes the slot count as fresh.
C21_FailedFetchStaysStale ==
    [][LiveRefresh =>
          \A k \in Datasets :
             (~Fetched(k) /\ StaleSlot(violation_cache, Refreshed, k)) =>
                /\ StaleSlot(violation_cache', Refreshed, k)
                /\ GateRefreshes(violation_cache', Refreshed)]_vars

\* A non-forced request found a slot older than the threshold, refreshed, and
\* the fetch for that slot failed while the other datasets were fetched
C21_Witness ==
    /\ op.name = "get_all_violations" /\ ~op.refresh
    /\ ~resp[1].from_cache
    /\ \E k \in Datasets :
          /\ upstream[k].kind # "array"
          /\ <<"domaincos.com", k>> \in DOMAIN violation_cache
          /\ now - violation_cache[<<"domaincos.com", k>>].fetched_at > StaleAfter
          /\ \A j \in Datasets \ {k} :
                /\ <<"domaincos.com", j>> \in DOMAIN violation_cache
                /\ violation_cache[<<"domaincos.com", j>>].fetched_at = now

\* The retry: with no time passed since the first refresh, which could not
\* fetch every dataset, a second non-forced request refreshes again (SQLite,
\* where the age of an entry is read back)
RetriedAfterFailure ==
    /\ backend = "sqlite" /\ now = 0 /\ refreshes = 2
    /\ op.name = "get_all_violations" /\ ~op.refresh
    /\ ~resp[1].from_cache
    /\ \A k \in Datasets : upstream[k].kind = "array"

-----------------------------------------------------------------------------
(* A change of the search term *)

\* The step is a settings change that gave the session a new search term
SearchTermChanged ==
    /\ op'.name = "save_app_settings"
    /\ session'[op'.session].search_term # session[op'.session].search_term

\* The search term saved for tenant d in app_settings
SavedTerm(d) == app_settings[<<"search_term", d>>]

\* After a change of the search term the tenant has no cache entry left, so
\* its next gate evaluation refreshes
TermChangeEmptiesSlots ==
    [][SearchTermChanged =>
          /\ \A k \in Datasets : <<Refreshed, k>> \notin DOMAIN violation_cache'
          /\ GateRefreshes(violation_cache', Refreshed)]_vars

\* Every entry a live refresh writes for a tenant that has saved a search
\* term was fetched with that term
RefreshUsesSavedTerm ==
    [][(LiveRefresh /\ <<"search_term", Refreshed>> \in DOMAIN app_settings) =>
          \A k \in Datasets :
             Fetched(k) =>
                violation_cache'[<<Refreshed, k>>].search_term = SavedTerm(Refreshed)]_vars

\* C22: a change of a tenant's search term makes every cache slot of the
\* tenant stop counting as fresh, and the refresh that the tenant's next gate
\* evaluation performs, from whichever session of the tenant, fetches every
\* dataset with the new search term and populates the slots with it.
C22_TermChangeRefreshesWithNewTerm ==
    [][/\ SearchTermChanged =>
             /\ \A k \in Datasets : <<Refreshed, k>> \notin DOMAIN violation_cache'
             /\ GateRefreshes(violation_cache', Refreshed)
       /\ (LiveRefresh /\ <<"search_term", Refreshed>> \in DOMAIN app_settings) =>
             \A k \in Datasets :
                Fetched(k) =>
                   violation_cache'[<<Refreshed, k>>].search_term = SavedTerm(Refreshed)]_vars

\* A settings change emptied a populated cache of the tenant
TermChangedOnPopulatedCache ==
    /\ op.name = "save_app_settings"
    /\ refreshes > 0
    /\ <<"search_term", session[op.session].domain>> \in DOMAIN app_settings
    /\ \A pk \in DOMAIN violation_cache : pk[1] # session[op.session].domain

\* A refresh after the change wrote entries under the term the tenant had
\* before the change
RefreshedWithOldTerm ==
    /\ op.name = "get_all_violations" /\ ~resp[1].from_cache
    /\ <<"search_term", session[op.session].domain>> \in DOMAIN app_settings
    /\ \E pk \in DOMAIN violation_cache :
          /\ pk[1] = session[op.session].domain
          /\ violation_cache[pk].search_term # SavedTerm(pk[1])

-----------------------------------------------------------------------------
(* Refreshes in progress: one connection and one transaction per refresh *)

\* The committed contents of the three tables a refresh writes
CommittedStore ==
    [cache   |-> violation_cache,
     snaps   |-> violation_snapshots,
     changes |-> violation_changes]

\* The rows a transaction has written and not yet committed
EmptyWrites == [cache |-> << >>, snaps |-> << >>, changes |-> << >>]

\* A table as a connection sees it: its own uncommitted rows over the
\* committed ones
Overlay(written, committed) ==
    [pk \in DOMAIN written \cup DOMAIN committed |->
        IF pk \in DOMAIN written THEN written[pk] ELSE committed[pk]]

\* The store as the connection with the uncommitted rows w sees it
ViewOf(w) ==
    [cache   |-> Overlay(w.cache, violation_cache),
     snaps   |-> Overlay(w.snaps, violation_snapshots),
     changes |-> violation_changes \o w.changes]

\* The refresh p has an open connection
Holding(p) ==
    p \in DOMAIN inflight /\ inflight[p].phase \in {"read", "save", "commit"}

\* The row of the work list and the dataset at position pos of a refresh:
\* "for row in domain_rows: for key in DATASETS"
RowAt(rows, pos) == rows[((pos - 1) \div Len(DatasetKeys)) + 1]

KeyAt(pos) == DatasetKeys[((pos - 1) % Len(DatasetKeys)) + 1]

\* Another connection keeps p from writing the rows of (domain, key): on
\* Postgres an uncommitted upsert of the same row, on SQLite any uncommitted
\* write (the database-level write lock)
LockedOut(p, domain, key) ==
    \E q \in DOMAIN inflight \ {p} :
        /\ Holding(q)
        /\ IF backend = "pg"
           THEN <<domain, key>> \in DOMAIN inflight[q].writes.cache
           ELSE inflight[q].writes # EmptyWrites

\* The live branch of get_all_violations is entered: the gate has read the
\* tenant's cache rows, a connection is opened and today's date is taken
begin_refresh(p, s, force_refresh, env) ==
    /\ p \notin DOMAIN inflight
    /\ session[s] # LoggedOut
    /\ ~UseCache(CacheRows(violation_cache, session[s].domain), force_refresh)
    /\ inflight' = inflight @@
          (p :> [kind         |-> "request",
                 session      |-> s,
                 rows         |-> << [domain      |-> session[s].domain,
                                      search_term |-> session[s].search_term] >>,
                 envs         |-> (session[s].search_term :> env),
                 today        |-> Today,
                 pos          |-> 1,
                 phase        |-> "read",
                 old_enriched |-> << >>,
                 writes       |-> EmptyWrites,
                 base         |-> CommittedStore,
                 seen         |-> refreshes,
                 began        |-> 1 + Cardinality(DOMAIN inflight),
                 order        |-> 0])
    /\ op' = [name |-> "begin_refresh", proc |-> p]
    /\ upstream' = << >>
    /\ resp' = << >>
    /\ UNCHANGED <<backend, now, session, violation_cache, violation_snapshots,
                   violation_changes, refreshes, call, app_settings, email_config,
                   sched, registry>>

\* _refresh_domain: "old_row = SELECT data_json FROM violation_cache ..."
read_baseline(p) ==
    /\ p \in DOMAIN inflight /\ inflight[p].phase = "read"
    /\ LET me  == inflight[p]
           pk  == <<RowAt(me.rows, me.pos).domain, KeyAt(me.pos)>>
           see == ViewOf(me.writes).cache
       IN  inflight' = [inflight EXCEPT ![p] =
              [me EXCEPT !.phase = "save",
                         !.old_enriched = IF pk \in DOMAIN see
                                          THEN see[pk].data_json ELSE << >>]]
    /\ op' = [name |-> "read_baseline", proc |-> p]
    /\ upstream' = << >>
    /\ resp' = << >>
    /\ UNCHANGED <<backend, now, session, violation_cache, violation_snapshots,
                   violation_changes, refreshes, call, app_settings, email_config,
                   sched, registry>>

\* The position after pos in a work list of n rows
Advance(me) ==
    [me EXCEPT !.pos = me.pos + 1,
               !.old_enriched = << >>,
               !.phase = IF me.pos + 1 > Len(me.rows) * Len(DatasetKeys)
                         THEN "commit" ELSE "read"]

\* The rows the successful branch of one iteration writes, added to w
WritesOfKey(w, key, domain, search, today, old_enriched, enriched) ==
    LET see   == ViewOf(w)
        after == SaveRefreshed(see, key, domain, search, today, old_enriched, enriched)
    IN  [cache   |-> Put(w.cache, <<domain, key>>, after.cache[<<domain, key>>]),
         snaps   |-> Put(w.snaps, <<key, today, domain>>,
                         after.snaps[<<key, today, domain>>]),
         changes |-> w.changes \o
                     SubSeq(after.changes, Len(see.changes) + 1, Len(after.changes))]

\* _refresh_domain: the fetch and, when it succeeds, the three writes of one
\* iteration, made in the connection's transaction
save_key(p) ==
    /\ p \in DOMAIN inflight /\ inflight[p].phase = "save"
    /\ LET me     == inflight[p]
           row    == RowAt(me.rows, me.pos)
           key    == KeyAt(me.pos)
           env    == me.envs[row.search_term]
           result == fetch_violations(key, row.search_term, env.answers[key])
       IN  IF result.success
           THEN /\ ~LockedOut(p, row.domain, key)
                /\ \E w \in {WritesOfKey(me.writes, key, row.domain, row.search_term,
                                         me.today, me.old_enriched,
                                         _enrich_records(result.data, key, env.remote))} :
                      inflight' = [inflight EXCEPT ![p] =
                                      Advance([me EXCEPT !.writes = w])]
           ELSE inflight' = [inflight EXCEPT ![p] = Advance(me)]
    /\ op' = [name |-> "save_key", proc |-> p]
    /\ upstream' = << >>
    /\ resp' = << >>
    /\ UNCHANGED <<backend, now, session, violation_cache, violation_snapshots,
                   violation_changes, refreshes, call, app_settings, email_config,
                   sched, registry>>

\* conn.commit() after the loop; a request then re-reads the tenant's cache
\* rows and answers, the scheduled job ends
commit_refresh(p) ==
    /\ p \in DOMAIN inflight /\ inflight[p].phase = "commit"
    /\ LET me == inflight[p]
       IN  /\ violation_cache' = Overlay(me.writes.cache, violation_cache)
           /\ violation_snapshots' = Overlay(me.writes.snaps, violation_snapshots)
           /\ violation_changes' = violation_changes \o me.writes.changes
           /\ inflight' = [inflight EXCEPT ![p] =
                 [me EXCEPT !.phase = "done",
                            !.order = 1 + Cardinality({q \in DOMAIN inflight :
                                                          inflight[q].phase = "done"})]]
           /\ IF me.kind = "request"
              THEN /\ \E agg \in {Aggregate(CacheRows(violation_cache', me.rows[1].domain),
                                            1, EmptyAggregate)} :
                         resp' = << [results    |-> agg.results,
                                     summary    |-> agg.summary,
                                     by_source  |-> agg.by_source,
                                     from_cache |-> FALSE,
                                     cached_at  |-> {}] >>
                   /\ UNCHANGED sched
              ELSE /\ resp' = << >>
                   /\ sched' = [sched EXCEPT !.running = sched.running - 1]
    /\ refreshes' = refreshes + 1
    /\ op' = [name |-> "commit_refresh", proc |-> p]
    /\ upstream' = << >>
    /\ UNCHANGED <<backend, now, session, call, app_settings, email_config, registry>>

\* The two requests that run concurrently
Requests == {"r1", "r2"}

\* What the upstream answers before the two requests, and to each of them
FirstEnv == Env(Array(EcbA), Array(OathA), Array(DotA), RemoteUp)

RaceEnvs ==
    { Env(Array(EcbB), Array(OathB), Array(DotB), RemoteUp),
      Env(Array(EcbC), Array(OathA), Array(DotC), RemoteUp) }

NextRace ==
    \/ login("s1")
    \/ /\ inflight = << >>
       /\ refreshes = 0
       /\ get_all_violations("s1", TRUE, FirstEnv)
    \/ \E p \in Requests, env \in RaceEnvs : begin_refresh(p, "s1", TRUE, env)
    \/ \E p \in Requests : read_baseline(p)
    \/ \E p \in Requests : save_key(p)
    \/ \E p \in Requests : commit_refresh(p)

\* Two forced refreshes of one tenant, interleaved step by step
SpecRace == Init /\ [][NextRace]_vars


\* Both requests have committed
BothCommitted ==
    \A p \in Requests : p \in DOMAIN inflight /\ inflight[p].phase = "done"

\* The tenant both requests refresh
RacedTenant == inflight["r1"].rows[1].domain

\* The store when the first of the two requests began
RaceBase == inflight[CHOOSE p \in Requests : inflight[p].began = 1].base

\* The request that committed last
LastWriter == CHOOSE p \in Requests : inflight[p].order = 2

\* The store after request a and then request b ran one after the other
Sequential(a, b) ==
    LET ra == inflight[a].rows[1]
        rb == inflight[b].rows[1]
        first == _refresh_domain(RaceBase, ra.domain, ra.search_term, Today,
                                 inflight[a].envs[ra.search_term])
    IN  _refresh_domain(first, rb.domain, rb.search_term, Today,
                        inflight[b].envs[rb.search_term])

\* The change events for dataset k in a log, from the row after position n
EventsOf(changes, n, k) ==
    {changes[i] : i \in {j \in (n + 1)..Len(changes) : changes[j].source = k}}

\* The events logged for dataset k since the first request began
RaceEvents(k) == EventsOf(violation_changes, Len(RaceBase.changes), k)

\* The events the two requests log for dataset k when a runs before b
SequentialEvents(a, b, k) ==
    EventsOf(Sequential(a, b).changes, Len(RaceBase.changes), k)

\* The cache holds, for every dataset, the array the last writer wrote
LastWriteWins ==
    BothCommitted =>
        \A k \in Datasets :
            /\ <<RacedTenant, k>> \in DOMAIN violation_cache
            /\ violation_cache[<<RacedTenant, k>>].data_json =
                  inflight[LastWriter].writes.cache[<<RacedTenant, k>>].data_json

\* Up to duplicates, the log of every dataset is the log of one of the two
\* sequential executions
OnlyDuplicates ==
    BothCommitted =>
        \A k \in Datasets :
            \/ RaceEvents(k) = SequentialEvents("r1", "r2", k)
            \/ RaceEvents(k) = SequentialEvents("r2", "r1", k)

\* C23: when two refreshes of the same tenant interleave, the store ends with
\* one cache entry per dataset, holding the array of the refresh that wrote
\* last, and for every dataset the change log differs from the log of a
\* sequential execution of the two refreshes by duplicates only.
C23_InterleavedRefreshes ==
    LastWriteWins /\ OnlyDuplicates

\* The same for two requests to which the upstream gave the same answers
OnlyDuplicatesOnEqualAnswers ==
    (BothCommitted /\ inflight["r1"].envs = inflight["r2"].envs) =>
        \A k \in Datasets : RaceEvents(k) = SequentialEvents("r1", "r2", k)

\* Both requests diffed against the same baseline and logged the same event
DuplicateLogged ==
    /\ BothCommitted
    /\ inflight["r1"].envs = inflight["r2"].envs
    /\ \E i, j \in 1..Len(violation_changes) :
          /\ i < j
          /\ violation_changes[i] = violation_changes[j]

\* The second request diffed a dataset against a baseline the first request
\* replaced before the second wrote, with different answers from the upstream
StaleBaselineDiffed ==
    /\ BothCommitted
    /\ inflight["r1"].envs # inflight["r2"].envs
    /\ \E k \in Datasets : RaceEvents(k) # SequentialEvents("r1", "r2", k)
                           /\ RaceEvents(k) # SequentialEvents("r2", "r1", k)

-----------------------------------------------------------------------------
(* The scheduled job and store write failures *)

\* add_job(refresh_all_cache, 'interval', hours=24, max_instances=1, coalesce=True)
max_instances_two == 1 + 1

max_instances == 1

MaxTicks == 3

\* The instances of the job the executor can run
Jobs == {"job1", "job2"}

\* The instances of the job that are running
RunningJobs == {j \in Jobs : Holding(j)}

\* The interval trigger of 'cache_refresh' fires.  The executor refuses the
\* run when max_instances instances are running (the tick is skipped, and the
\* next run time advances); otherwise refresh_all_cache starts: connection,
\* today's date, the rows of company_domains.  No scheduler exists when VERCEL
\* is set.
sched_tick(envs) ==
    /\ ~sched.vercel
    /\ sched.ticks < MaxTicks
    /\ IF sched.running >= max_instances
       THEN /\ sched' = [sched EXCEPT !.ticks = sched.ticks + 1,
                                      !.skipped = sched.skipped + 1]
            /\ UNCHANGED inflight
       ELSE /\ sched' = [sched EXCEPT !.ticks = sched.ticks + 1,
                                      !.running = sched.running + 1]
            /\ LET j == IF ~Holding("job1") THEN "job1" ELSE "job2"
               IN  inflight' = Put(inflight, j,
                       [kind         |-> "job",
                        rows         |-> [i \in 1..Len(domain_rows) |->
                                            [domain      |-> domain_rows[i],
                                             search_term |-> company_domains[domain_rows[i]].search_term]],
                        envs         |-> envs,
                        today        |-> Today,
                        pos          |-> 1,
                        phase        |-> "read",
                        old_enriched |-> << >>,
                        writes       |-> EmptyWrites,
                        base         |-> CommittedStore,
                        seen         |-> refreshes,
                        began        |-> sched.ticks + 1,
                        order        |-> 0])
    /\ op' = [name |-> "sched_tick"]
    /\ upstream' = << >>
    /\ resp' = << >>
    /\ UNCHANGED <<backend, now, session, violation_cache, violation_snapshots,
                   violation_changes, refreshes, call, app_settings, email_config,
                   registry>>

\* What reaches the tables of a transaction whose connection is dropped
\* without a commit, with every write committed as it is made
StoreAfterFailureKeepingWrites(me) ==
    [cache   |-> Overlay(me.writes.cache, violation_cache),
     snaps   |-> Overlay(me.writes.snaps, violation_snapshots),
     changes |-> violation_changes \o me.writes.changes]

\* What reaches the tables of a transaction whose connection is dropped
\* without a commit: nothing
StoreAfterFailure(me) == CommittedStore

\* A write of the current iteration raises (database is locked, disk full,
\* connection lost).  Neither _refresh_domain nor its callers catch it: the
\* loop is left, commit() is not reached, the connection is dropped.  A
\* request answers 500; the executor logs the job's exception.
write_fails(p) ==
    /\ p \in DOMAIN inflight /\ inflight[p].phase = "save"
    /\ LET me  == inflight[p]
           row == RowAt(me.rows, me.pos)
           key == KeyAt(me.pos)
       IN  /\ me.envs[row.search_term].answers[key].kind = "array"
           /\ \E after \in {StoreAfterFailure(me)} :
                 /\ violation_cache' = after.cache
                 /\ violation_snapshots' = after.snaps
                 /\ violation_changes' = after.changes
           /\ inflight' = [inflight EXCEPT ![p] = [me EXCEPT !.phase = "failed"]]
           /\ IF me.kind = "request"
              THEN /\ resp' = << [status |-> 500] >>
                   /\ UNCHANGED sched
              ELSE /\ resp' = << >>
                   /\ sched' = [sched EXCEPT !.running = sched.running - 1]
    /\ op' = [name |-> "write_fails", proc |-> p]
    /\ upstream' = << >>
    /\ UNCHANGED <<backend, now, session, refreshes, call, app_settings,
                   email_config, registry>>

\* What the upstream answers to the scheduled job, per search term
SchedEnvs ==
    { ("VOREA" :> Env(Array(EcbA), Array(OathA), Array(DotA), RemoteUp)) @@
      ("Schimenti" :> Env(Array(EcbB), Failed("error_dict"), Array(DotB), RemoteUp)) }

InitSched ==
    /\ backend \in {"sqlite", "pg"}
    /\ now = 0
    /\ session = [s \in Sessions |-> LoggedOut]
    /\ violation_cache = << >>
    /\ violation_snapshots = << >>
    /\ violation_changes = << >>
    /\ op = [name |-> "init_db"]
    /\ upstream = << >>
    /\ resp = << >>
    /\ refreshes = 0
    /\ call = NoCall
    /\ app_settings = << >>
    /\ email_config = << >>
    /\ inflight = << >>
    /\ sched \in {Scheduler(v) : v \in BOOLEAN}
    /\ projects = EmptyTable
    /\ project_bins = << >>
    /\ tco_items = EmptyTable

NextSched ==
    \/ login("s1")
    \/ \E env \in RaceEnvs : begin_refresh("r1", "s1", TRUE, env)
    \/ \E envs \in SchedEnvs : sched_tick(envs)
    \/ \E p \in Jobs \cup {"r1"} : read_baseline(p)
    \/ \E p \in Jobs \cup {"r1"} : save_key(p)
    \/ \E p \in Jobs \cup {"r1"} : write_fails(p)
    \/ \E p \in Jobs \cup {"r1"} : commit_refresh(p)

\* The scheduler, its job and one request, with writes that may fail
SpecSched == InitSched /\ [][NextSched]_vars


\* An instance of the scheduled job starts in this step
JobStarts ==
    \E j \in Jobs :
        /\ j \in DOMAIN inflight' /\ inflight'[j].phase = "read" /\ inflight'[j].pos = 1
        /\ ~Holding(j)

NoJobOnVercel ==
    /\ sched.vercel
    /\ refreshes > 0
    /\ \A j \in Jobs : j \notin DOMAIN inflight

\* C25: a store write failure ends the refresh it occurs in: the refresh
\* processes no further dataset or tenant and commits nothing, so the tables
\* are left by the failing step as they were, and when no other refresh has
\* committed meanwhile they hold what they held when the refresh began.
C25_WriteFailureCommitsNothing ==
    [][\A p \in DOMAIN inflight :
          /\ (inflight[p].phase = "failed" /\ p \in DOMAIN inflight'
                 /\ inflight'[p].phase # "failed") => inflight'[p].pos = 1
          /\ (op'.name = "write_fails" /\ op'.proc = p) =>
                /\ inflight'[p].phase = "failed"
                /\ UNCHANGED <<violation_cache, violation_snapshots, violation_changes>>
                /\ refreshes = inflight[p].seen =>
                      /\ violation_cache' = inflight[p].base.cache
                      /\ violation_snapshots' = inflight[p].base.snaps
                      /\ violation_changes' = inflight[p].base.changes]_vars

\* The job failed on a write after it had written rows of earlier datasets
\* and tenants, none of which reached the tables
C25_Witness ==
    /\ op.name = "write_fails"
    /\ inflight[op.proc].kind = "job"
    /\ inflight[op.proc].pos > Len(DatasetKeys)
    /\ inflight[op.proc].writes.changes = << >>
    /\ DOMAIN inflight[op.proc].writes.cache # {}
    /\ violation_cache = << >>

\* A request failed on a write after change events were written in its
\* transaction; the log is as before
RequestFailedAfterEvents ==
    /\ op.name = "write_fails"
    /\ inflight[op.proc].kind = "request"
    /\ inflight[op.proc].writes.changes # << >>
    /\ resp[1].status = 500

-----------------------------------------------------------------------------
(* The registry: projects, BINs and punch-list items *)

MaxProjects == 1

MaxItems == 1

Bins == {"B1", "B2"}

\* f without the key k
Drop(f, k) == [x \in DOMAIN f \ {k} |-> f[x]]

\* The BIN rows of a project
BinsOf(bins, project_id) == {pk \in DOMAIN bins : pk[1] = project_id}

\* A row with project_id referencing a project that does not exist is
\* refused by Postgres; SQLite does not enforce foreign keys (no PRAGMA)
ForeignKeyViolated(project_id) ==
    backend = "pg" /\ project_id \notin DOMAIN projects.rows

RegistryBodies ==
    { [project_name |-> " Tower ", bin |-> "B1"], [notes |-> "on hold"] }

\* POST /api/projects
add_project(s, d) ==
    /\ session[s] # LoggedOut
    /\ projects.seq < MaxProjects
    /\ LET name == Strip(Get(d, "project_name", ""), Whitespace)
           id   == projects.seq + 1
           bin  == Strip(Get(d, "bin", ""), Whitespace)
       IN  IF name = ""
           THEN /\ resp' = << [status |-> 400, error |-> "Project name required"] >>
                /\ UNCHANGED <<projects, project_bins>>
           ELSE /\ projects' = [seq  |-> id,
                                rows |-> Put(projects.rows, id,
                                    [project_name |-> name,
                                     address      |-> Get(d, "address", ""),
                                     borough      |-> Get(d, "borough", ""),
                                     notes        |-> Get(d, "notes", ""),
                                     domain       |-> session[s].domain])]
                /\ project_bins' =
                      IF bin # ""
                      THEN Put(project_bins, <<id, bin>>,
                               [label          |-> Get(d, "bin_label", ""),
                                dob_job_number |-> Get(d, "dob_job_number", ""),
                                is_primary     |-> 1])
                      ELSE project_bins
                /\ resp' = << [status |-> 200, success |-> TRUE, id |-> id] >>
    /\ op' = [name |-> "add_project", session |-> s]
    /\ upstream' = << >>
    /\ UNCHANGED <<backend, now, session, violation_cache, violation_snapshots,
                   violation_changes, refreshes, call, app_settings, email_config,
                   inflight, sched, tco_items>>

RECURSIVE SetFields(_, _, _)
\* "for f in [...]: if f in d: sets.append(f'{f}=?')" applied to a row
SetFields(row, fields, d) ==
    IF fields = << >> THEN row
    ELSE SetFields(IF Head(fields) \in DOMAIN d
                   THEN [row EXCEPT ![Head(fields)] = d[Head(fields)]] ELSE row,
                   Tail(fields), d)

\* PUT /api/projects/<project_id>
update_project(s, project_id, d) ==
    /\ session[s] # LoggedOut
    /\ LET fields == <<"project_name", "address", "borough", "notes">>
       IN  IF DOMAIN d \cap Range(fields) = {}
           THEN /\ resp' = << [status |-> 400, error |-> "Nothing to update"] >>
                /\ UNCHANGED projects
           ELSE /\ projects' =
                      IF /\ project_id \in DOMAIN projects.rows
                         /\ projects.rows[project_id].domain = session[s].domain
                      THEN [projects EXCEPT !.rows[project_id] =
                               SetFields(projects.rows[project_id], fields, d)]
                      ELSE projects
                /\ resp' = << [status |-> 200, success |-> TRUE] >>
    /\ op' = [name |-> "update_project", session |-> s, project_id |-> project_id]
    /\ upstream' = << >>
    /\ UNCHANGED <<backend, now, session, violation_cache, violation_snapshots,
                   violation_changes, refreshes, call, app_settings, email_config,
                   inflight, sched, project_bins, tco_items>>

\* DELETE /api/projects/<project_id>
delete_project(s, project_id) ==
    /\ session[s] # LoggedOut
    /\ IF ~(/\ project_id \in DOMAIN projects.rows
            /\ projects.rows[project_id].domain = session[s].domain)
       THEN /\ resp' = << [status |-> 404, error |-> "Project not found"] >>
            /\ UNCHANGED <<projects, project_bins, tco_items>>
       ELSE /\ tco_items' = [tco_items EXCEPT !.rows =
                               [i \in {x \in DOMAIN tco_items.rows :
                                         tco_items.rows[x].project_id # project_id} |->
                                   tco_items.rows[i]]]
            /\ project_bins' = [pk \in DOMAIN project_bins \ BinsOf(project_bins, project_id) |->
                                   project_bins[pk]]
            /\ projects' = [projects EXCEPT !.rows = Drop(projects.rows, project_id)]
            /\ resp' = << [status |-> 200, success |-> TRUE] >>
    /\ op' = [name |-> "delete_project", session |-> s, project_id |-> project_id]
    /\ upstream' = << >>
    /\ UNCHANGED <<backend, now, session, violation_cache, violation_snapshots,
                   violation_changes, refreshes, call, app_settings, email_config,
                   inflight, sched>>

\* POST /api/projects/<project_id>/bins
add_bin(s, project_id, bin) ==
    /\ session[s] # LoggedOut
    /\ LET bin_num == Strip(bin, Whitespace)
       IN  IF bin_num = ""
           THEN /\ resp' = << [status |-> 400, error |-> "BIN required"] >>
                /\ UNCHANGED project_bins
           ELSE IF <<project_id, bin_num>> \in DOMAIN project_bins
                   \/ ForeignKeyViolated(project_id)
           THEN /\ resp' = << [status |-> 409,
                               error |-> "BIN " \o bin_num \o " already in this project"] >>
                /\ UNCHANGED project_bins
           ELSE /\ project_bins' = Put(project_bins, <<project_id, bin_num>>,
                                       [label |-> "", dob_job_number |-> "",
                                        is_primary |-> 0])
                /\ resp' = << [status |-> 200, success |-> TRUE] >>
    /\ op' = [name |-> "add_bin", session |-> s, project_id |-> project_id]
    /\ upstream' = << >>
    /\ UNCHANGED <<backend, now, session, violation_cache, violation_snapshots,
                   violation_changes, refreshes, call, app_settings, email_config,
                   inflight, sched, projects, tco_items>>

\* PUT /api/projects/<project_id>/bins/<bin_num>
update_bin(s, project_id, bin_num, d) ==
    /\ session[s] # LoggedOut
    /\ LET new_bin == Strip(Get(d, "bin", bin_num), Whitespace)
           pk      == <<project_id, bin_num>>
       IN  IF pk \notin DOMAIN project_bins
           THEN /\ resp' = << [status |-> 200, success |-> TRUE] >>
                /\ UNCHANGED project_bins
           ELSE IF new_bin # bin_num /\ <<project_id, new_bin>> \in DOMAIN project_bins
           THEN /\ resp' = << [status |-> 500, error |-> "UNIQUE constraint failed"] >>
                /\ UNCHANGED project_bins
           ELSE /\ project_bins' =
                      Put(Drop(project_bins, pk), <<project_id, new_bin>>,
                          [project_bins[pk] EXCEPT
                              !.label = Get(d, "label", ""),
                              !.dob_job_number = Get(d, "dob_job_number", "")])
                /\ resp' = << [status |-> 200, success |-> TRUE] >>
    /\ op' = [name |-> "update_bin", session |-> s, project_id |-> project_id]
    /\ upstream' = << >>
    /\ UNCHANGED <<backend, now, session, violation_cache, violation_snapshots,
                   violation_changes, refreshes, call, app_settings, email_config,
                   inflight, sched, projects, tco_items>>

\* DELETE /api/projects/<project_id>/bins/<bin_num>, first statement:
\* SELECT COUNT(*) FROM project_bins WHERE project_id=?
remove_bin_count(p, s, project_id, bin_num) ==
    /\ session[s] # LoggedOut
    /\ p \notin DOMAIN inflight
    /\ inflight' = inflight @@
          (p :> [kind |-> "remove_bin", phase |-> "counted", session |-> s,
                 project_id |-> project_id, bin_num |-> bin_num,
                 count |-> Cardinality(BinsOf(project_bins, project_id))])
    /\ op' = [name |-> "remove_bin_count", session |-> s, project_id |-> project_id]
    /\ upstream' = << >>
    /\ resp' = << >>
    /\ UNCHANGED <<backend, now, session, violation_cache, violation_snapshots,
                   violation_changes, refreshes, call, app_settings, email_config,
                   sched, registry>>

\* remove_bin after the count: refusal when count <= 1, else
\* DELETE FROM project_bins WHERE project_id=? AND bin=?
remove_bin_rest(me, bins) ==
    IF me.count <= 1 THEN bins ELSE Drop(bins, <<me.project_id, me.bin_num>>)

\* DELETE /api/projects/<project_id>/bins/<bin_num>, from the test of the count
remove_bin(p) ==
    /\ p \in DOMAIN inflight /\ inflight[p].kind = "remove_bin"
    /\ LET me == inflight[p]
       IN  /\ project_bins' = remove_bin_rest(me, project_bins)
           /\ resp' = IF me.count <= 1
                      THEN << [status |-> 400,
                               error |-> "Cannot remove the last BIN"] >>
                      ELSE << [status |-> 200, success |-> TRUE] >>
           /\ op' = [name |-> "remove_bin", session |-> me.session,
                     project_id |-> me.project_id, bin_num |-> me.bin_num,
                     count |-> me.count]
    /\ inflight' = Drop(inflight, p)
    /\ upstream' = << >>
    /\ UNCHANGED <<backend, now, session, violation_cache, violation_snapshots,
                   violation_changes, refreshes, call, app_settings, email_config,
                   sched, projects, tco_items>>

\* POST /api/projects/<project_id>/tco_items
add_tco_item(s, project_id, d) ==
    /\ session[s] # LoggedOut
    /\ tco_items.seq < MaxItems
    /\ IF Strip(Get(d, "description", ""), Whitespace) = ""
       THEN /\ resp' = << [status |-> 400, error |-> "Description required"] >>
            /\ UNCHANGED tco_items
       ELSE IF ForeignKeyViolated(project_id)
       THEN /\ resp' = << [status |-> 500, error |-> "foreign key constraint"] >>
            /\ UNCHANGED tco_items
       ELSE /\ tco_items' =
                  [seq  |-> tco_items.seq + 1,
                   rows |-> Put(tco_items.rows, tco_items.seq + 1,
                       [project_id        |-> project_id,
                        section           |-> Get(d, "section", "other"),
                        item_ref          |-> Get(d, "item_ref", ""),
                        description       |-> Strip(d["description"], Whitespace),
                        responsible_party |-> Get(d, "responsible_party", ""),
                        status            |-> Get(d, "status", "open"),
                        notes             |-> Get(d, "notes", ""),
                        updated_at        |-> now])]
            /\ resp' = << [status |-> 200, success |-> TRUE, id |-> tco_items.seq + 1] >>
    /\ op' = [name |-> "add_tco_item", session |-> s, project_id |-> project_id]
    /\ upstream' = << >>
    /\ UNCHANGED <<backend, now, session, violation_cache, violation_snapshots,
                   violation_changes, refreshes, call, app_settings, email_config,
                   inflight, sched, projects, project_bins>>

\* PUT /api/tco_items/<item_id>
update_tco_item(s, item_id, d) ==
    /\ session[s] # LoggedOut
    /\ LET fields == <<"status", "notes", "responsible_party", "description">>
       IN  IF DOMAIN d \cap Range(fields) = {}
           THEN /\ resp' = << [status |-> 400, error |-> "Nothing to update"] >>
                /\ UNCHANGED tco_items
           ELSE /\ tco_items' =
                      IF item_id \in DOMAIN tco_items.rows
                      THEN [tco_items EXCEPT !.rows[item_id] =
                               [SetFields(tco_items.rows[item_id], fields, d)
                                   EXCEPT !.updated_at = now]]
                      ELSE tco_items
                /\ resp' = << [status |-> 200, success |-> TRUE] >>
    /\ op' = [name |-> "update_tco_item", session |-> s, item_id |-> item_id]
    /\ upstream' = << >>
    /\ UNCHANGED <<backend, now, session, violation_cache, violation_snapshots,
                   violation_changes, refreshes, call, app_settings, email_config,
                   inflight, sched, projects, project_bins>>

\* DELETE /api/tco_items/<item_id>
delete_tco_item(s, item_id) ==
    /\ session[s] # LoggedOut
    /\ tco_items' = [tco_items EXCEPT !.rows =
                        [i \in DOMAIN tco_items.rows \ {item_id} |-> tco_items.rows[i]]]
    /\ resp' = << [status |-> 200, success |-> TRUE] >>
    /\ op' = [name |-> "delete_tco_item", session |-> s, item_id |-> item_id]
    /\ upstream' = << >>
    /\ UNCHANGED <<backend, now, session, violation_cache, violation_snapshots,
                   violation_changes, refreshes, call, app_settings, email_config,
                   inflight, sched, projects, project_bins>>

ItemBodies == { [description |-> " Sprinkler sign-off "], [status |-> "done"] }

BinBodies == { [bin |-> "B2", label |-> "Annex"] }

NextRegistry ==
    \/ \E s \in Sessions : login(s)
    \/ \E s \in Sessions, d \in RegistryBodies : add_project(s, d)
    \/ \E s \in Sessions, id \in 1..MaxProjects, d \in RegistryBodies :
          update_project(s, id, d)
    \/ \E s \in Sessions, id \in 1..MaxProjects : delete_project(s, id)
    \/ \E s \in Sessions, id \in 1..MaxProjects, b \in Bins : add_bin(s, id, b)
    \/ \E s \in Sessions, id \in 1..MaxProjects, b \in Bins, d \in BinBodies :
          update_bin(s, id, b, d)
    \/ \E s \in Sessions, id \in 1..MaxProjects, b \in Bins :
          remove_bin_count("d1", s, id, b)
    \/ remove_bin("d1")
    \/ \E s \in Sessions, id \in 1..MaxProjects, d \in ItemBodies :
          add_tco_item(s, id, d)
    \/ \E s \in Sessions, id \in 1..MaxItems, d \in ItemBodies :
          update_tco_item(s, id, d)
    \/ \E s \in Sessions, id \in 1..MaxItems : delete_tco_item(s, id)

\* Users of two tenants working on the registry, one request at a time
SpecRegistry == Init /\ [][NextRegistry]_vars

-----------------------------------------------------------------------------
(* Tenant scoping of registry writes *)

\* The projects that belong to another tenant than d
ForeignProjects(d) == {id \in DOMAIN projects.rows : projects.rows[id].domain # d}

\* The BINs and punch-list items recorded for a project
BinRowsOf(bins, id) == [pk \in BinsOf(bins, id) |-> bins[pk]]

ItemRowsOf(items, id) ==
    [i \in {x \in DOMAIN items.rows : items.rows[x].project_id = id} |-> items.rows[i]]

\* A step of one of the handlers in ops leaves every project of another
\* tenant, its BINs and its punch-list items as they were
WritesScoped(ops) ==
    op'.name \in ops =>
        \A id \in ForeignProjects(session[op'.session].domain) :
            /\ id \in DOMAIN projects'.rows
            /\ projects'.rows[id] = projects.rows[id]
            /\ BinRowsOf(project_bins', id) = BinRowsOf(project_bins, id)
            /\ ItemRowsOf(tco_items', id) = ItemRowsOf(tco_items, id)

\* update_project and delete_project filter on the caller's domain
ProjectWritesScoped == [][WritesScoped({"update_project", "delete_project"})]_vars

\* C26: no registry operation by a user of one tenant creates, changes or
\* deletes a project, BIN or punch-list item of a project of another tenant
C26_RegistryWritesScoped ==
    [][WritesScoped({"add_bin", "update_bin", "remove_bin", "add_tco_item",
                     "update_tco_item", "delete_tco_item", "update_project",
                     "delete_project"})]_vars

\* A user asked to delete a project of another tenant and was refused
ForeignProjectDeleteRefused ==
    /\ op.name = "delete_project"
    /\ resp = << [status |-> 404, error |-> "Project not found"] >>
    /\ ForeignProjects(session[op.session].domain) # {}

-----------------------------------------------------------------------------
(* Concurrent removals of BINs *)

Removers == {"d1", "d2"}

\* One user, one project, and DELETE requests for its BINs that overlap
NextBins ==
    \/ login("s1")
    \/ add_project("s1", [project_name |-> " Tower ", bin |-> "B1"])
    \/ \E b \in Bins : add_bin("s1", 1, b)
    \/ \E p \in Removers, b \in Bins : remove_bin_count(p, "s1", 1, b)
    \/ \E p \in Removers : remove_bin(p)

SpecBins == Init /\ [][NextBins]_vars

\* The number of BINs of the project a remove_bin step is about
BinCount(bins) == Cardinality(BinsOf(bins, op'.project_id))

\* A remove_bin whose count is still the number of BINs leaves one BIN
RemoveAfterFreshCountKeepsOne ==
    [][(op'.name = "remove_bin" /\ op'.count = BinCount(project_bins)
        /\ BinCount(project_bins) >= 1)
       => BinCount(project_bins') >= 1]_vars

\* A remove_bin that counted at most one BIN answers 400 and changes nothing
LastBinRefused ==
    [][(op'.name = "remove_bin" /\ op'.count <= 1)
       => (resp'[1].status = 400 /\ UNCHANGED registry)]_vars

\* C30: a remove_bin on a project that has at least one BIN leaves it at
\* least one BIN, whatever other remove_bin calls are in progress, and a call
\* that found one BIN is rejected and leaves the registry unchanged
C30_LastBinNeverRemoved ==
    [][op'.name = "remove_bin" =>
         /\ BinCount(project_bins) >= 1 => BinCount(project_bins') >= 1
         /\ op'.count <= 1 => (resp'[1].status = 400 /\ UNCHANGED registry)]_vars

\* The last BIN was asked to be removed and the request was refused
LastBinRemovalRefused ==
    /\ op.name = "remove_bin"
    /\ resp[1].status = 400
    /\ Cardinality(BinsOf(project_bins, op.project_id)) = 1

\* Two removals in progress at once
RemovalsOverlap == Removers \subseteq DOMAIN inflight

-----------------------------------------------------------------------------
(* The search term of entries served from cache *)

\* The cache entries of the tenant of the session that made the last request
ServedEntries ==
    {pk \in DOMAIN violation_cache : pk[1] = session[op.session].domain}

\* The last request was answered from the cache
AnsweredFromCache ==
    /\ op.name = "get_all_violations"
    /\ resp[1].from_cache

\* C27: when get_all_violations answers from the cache, every entry it
\* serves was fetched with the search term the requesting session holds
C27_ServedEntriesHoldRequesterTerm ==
    AnsweredFromCache =>
       \A pk \in ServedEntries :
          violation_cache[pk].search_term = session[op.session].search_term

\* Entries written for the session's own request are served back to it
\* from the cache, under the term of the session
OwnRefreshServedFromCache ==
    /\ AnsweredFromCache
    /\ ServedEntries # {}
    /\ \A pk \in ServedEntries :
          violation_cache[pk].search_term = session[op.session].search_term

-----------------------------------------------------------------------------
(* Cache entries and the snapshot of their day *)

\* The clock advances while refreshes are in progress.  CURRENT_TIMESTAMP is
\* the time of the statement on SQLite and the time the transaction began on
\* Postgres, where the transaction begins with the first statement: on
\* Postgres the clock is advanced only for connections that have not
\* executed a statement yet.
ClockStep(d) ==
    /\ \A p \in DOMAIN inflight :
          Holding(p) =>
             \/ backend = "sqlite"
             \/ inflight[p].phase = "read" /\ inflight[p].pos = 1
    /\ Tick(d)

NextMidnight ==
    \/ login("s1")
    \/ \E d \in TickSteps : ClockStep(d)
    \/ \E p \in Requests : begin_refresh(p, "s1", TRUE, FirstEnv)
    \/ \E p \in Requests : read_baseline(p)
    \/ \E p \in Requests : save_key(p)
    \/ \E p \in Requests : commit_refresh(p)

\* Forced refreshes of one tenant while the clock runs
SpecMidnight == Init /\ [][NextMidnight]_vars

\* The key of the snapshot for the day on which the cache entry pk was
\* last written
SnapshotOfDay(pk) ==
    <<pk[2], violation_cache[pk].fetched_at \div MinutesPerDay, pk[1]>>

\* C28: for every cache entry the snapshot of its (dataset, tenant) pair for
\* the day of the entry's last refresh exists, holds the same record array
\* and has record_count equal to the length of the array
C28_CacheMatchesSnapshot ==
    \A pk \in DOMAIN violation_cache :
       /\ SnapshotOfDay(pk) \in DOMAIN violation_snapshots
       /\ violation_snapshots[SnapshotOfDay(pk)].data_json =
             violation_cache[pk].data_json
       /\ violation_snapshots[SnapshotOfDay(pk)].record_count =
             Len(violation_cache[pk].data_json)

\* A refresh was committed on the day after the first one
RefreshedOnSecondDay ==
    /\ refreshes > 0
    /\ \E pk \in DOMAIN violation_cache :
          /\ violation_cache[pk].fetched_at >= MinutesPerDay
          /\ SnapshotOfDay(pk) \in DOMAIN violation_snapshots

-----------------------------------------------------------------------------
(* The change log after a change of the search term *)

\* The tenant d has saved a search term and has no cache entry
BaselineReset(d) ==
    /\ <<"search_term", d>> \in DOMAIN app_settings
    /\ \A k \in Datasets : <<d, k>> \notin DOMAIN violation_cache

\* The step refreshes the tenant d: its own request, or the scheduled job
RefreshOf(d) ==
    \/ LiveRefresh /\ Refreshed = d
    \/ op'.name = "refresh_all_cache" /\ d \in Range(domain_rows)

\* C29: a change of a tenant's search term removes the cache entries of that
\* tenant and of no other, and the refresh of the tenant that finds the cache
\* emptied takes the first-observation path for every dataset: it appends no
\* change event for the tenant
C29_TermChangeResetsBaseline ==
    [][/\ SearchTermChanged =>
             /\ \A k \in Datasets : <<Refreshed, k>> \notin DOMAIN violation_cache'
             /\ OthersCache(violation_cache', Refreshed) =
                   OthersCache(violation_cache, Refreshed)
       /\ \A d \in DOMAIN company_domains :
             (BaselineReset(d) /\ RefreshOf(d)) =>
                \A k \in Datasets : Logged(d, k) = << >>]_vars

\* The scheduled job filled the cache, the tenant changed its search term,
\* and its next request fetched other records and logged nothing
FirstRefreshAfterTermChange ==
    /\ op.name = "get_all_violations" /\ ~resp[1].from_cache
    /\ refreshes = 2
    /\ <<"search_term", Tenant>> \in DOMAIN app_settings
    /\ session[op.session].search_term # company_domains[Tenant].search_term
    /\ OwnCache(Tenant) # << >>
    /\ OwnChanges(Tenant) = {}
    /\ \E pk \in DOMAIN violation_cache : pk[1] # Tenant
    /\ \E pk \in DOMAIN violation_snapshots : pk[3] = Tenant /\ pk[1] \notin
          {x[2] : x \in DOMAIN OwnCache(Tenant)}

====
